---------------------------- MODULE Spec2Model ----------------------------
(***************************************************************************)
(* A model of the URI value type of vscode-uri-rs (src/src/uri.rs) and of  *)
(* its path utilities (src/src/utils.rs).                                  *)
(*                                                                         *)
(* A string is a sequence of Unicode code points (naturals): "file" is     *)
(* <<102, 105, 108, 101>>.  Rust indexes a str by UTF-8 byte offsets, so   *)
(* the model computes byte offsets from the code points wherever the code  *)
(* slices or measures a string.                                            *)
(***************************************************************************)
EXTENDS Naturals, Integers, Sequences, FiniteSets, TLC

VARIABLES
    isWindows,  \* platform::test_utils::IS_WINDOWS, the process-wide flag
    recv,       \* the URI the last operation was invoked on (NoURI if none)
    op,         \* the name of the last operation
    arg,        \* the arguments of the last operation
    res         \* what the last operation returned

vars == <<isWindows, recv, op, arg, res>>

----------------------------------------------------------------------------
(* Character codes: the members of CharCode that uri.rs names.             *)

Colon == 58
Slash == 47
QuestionMark == 63
Hash == 35
OpenSquareBracket == 91
CloseSquareBracket == 93
AtSign == 64
PercentSign == 37
Backslash == 92
Dash == 45
Period == 46
Underline == 95
Tilde == 126
LineFeed == 10

(* The keys of ENCODE_TABLE; every value of the table is '%' followed by   *)
(* the two upper-case hex digits of its key.                               *)
ENCODE_TABLE ==
    { Colon, Slash, QuestionMark, Hash, OpenSquareBracket, CloseSquareBracket,
      AtSign, 33, 36, 38, 39, 40, 41, 42, 43, 44, 59, 61, PercentSign, 32 }

EMPTY == << >>
SLASH == << Slash >>
S_file == << 102, 105, 108, 101 >>
S_http == << 104, 116, 116, 112 >>
S_https == << 104, 116, 116, 112, 115 >>

----------------------------------------------------------------------------
(* Strings.                                                                *)

\* s[lo..] and s[..hi] by characters, 1-based and inclusive.
Drop(s, n) == SubSeq(s, n + 1, Len(s))
Take(s, n) == SubSeq(s, 1, n)

\* str::starts_with, str::ends_with
StartsWith(s, p) == Len(s) >= Len(p) /\ Take(s, Len(p)) = p
EndsWith(s, p) == Len(s) >= Len(p) /\ Drop(s, Len(s) - Len(p)) = p

\* The least index i >= from with s[i] \in cs, or 0 (str::find).
RECURSIVE FindFrom(_, _, _)
FindFrom(s, cs, from) ==
    IF from > Len(s) THEN 0
    ELSE IF s[from] \in cs THEN from
    ELSE FindFrom(s, cs, from + 1)

\* The greatest index i <= upto with s[i] = c, or 0 (str::rfind).
RECURSIVE RFindFrom(_, _, _)
RFindFrom(s, c, upto) ==
    IF upto < 1 THEN 0
    ELSE IF s[upto] = c THEN upto
    ELSE RFindFrom(s, c, upto - 1)

Find(s, c) == FindFrom(s, {c}, 1)
RFind(s, c) == RFindFrom(s, c, Len(s))

\* str::split(c): the segments between the occurrences of c.
RECURSIVE Split(_, _)
Split(s, c) ==
    LET i == Find(s, c)
    IN  IF i = 0 THEN << s >>
        ELSE << Take(s, i - 1) >> \o Split(Drop(s, i), c)

\* [T]::join(sep)
RECURSIVE Join(_, _)
Join(segs, sep) ==
    IF Len(segs) = 0 THEN EMPTY
    ELSE IF Len(segs) = 1 THEN segs[1]
    ELSE segs[1] \o sep \o Join(Tail(segs), sep)

\* str::replace(from, to) for a single character `from`.
RECURSIVE Replace(_, _, _)
Replace(s, from, to) ==
    IF Len(s) = 0 THEN EMPTY
    ELSE (IF Head(s) = from THEN to ELSE << Head(s) >>) \o Replace(Tail(s), from, to)

IsLower(c) == c >= 97 /\ c <= 122
IsUpper(c) == c >= 65 /\ c <= 90
IsDigit(c) == c >= 48 /\ c <= 57
IsAlpha(c) == IsLower(c) \/ IsUpper(c)
IsAlnum(c) == IsAlpha(c) \/ IsDigit(c)
IsHex(c) == IsDigit(c) \/ (c >= 65 /\ c <= 70) \/ (c >= 97 /\ c <= 102)

(* char::to_lowercase.  Exact for U+0000..U+00FF and for the letter-like   *)
(* signs U+212A KELVIN SIGN and U+212B ANGSTROM SIGN, whose lower-case     *)
(* mappings are 'k' and U+00E5; the model draws no other code points.      *)
ToLowerChar(c) ==
    IF IsUpper(c) THEN c + 32
    ELSE IF c >= 192 /\ c <= 222 /\ c # 215 THEN c + 32
    ELSE IF c = 8490 THEN 107
    ELSE IF c = 8491 THEN 229
    ELSE c

\* str::to_lowercase
ToLower(s) == [i \in 1..Len(s) |-> ToLowerChar(s[i])]

\* str::to_uppercase, applied by the code to ASCII text only.
ToUpper(s) == [i \in 1..Len(s) |-> IF IsLower(s[i]) THEN s[i] - 32 ELSE s[i]]

----------------------------------------------------------------------------
(* UTF-8.                                                                  *)

\* The number of bytes of a code point in UTF-8 (char::len_utf8).
Utf8Len(c) == IF c < 128 THEN 1 ELSE IF c < 2048 THEN 2 ELSE IF c < 65536 THEN 3 ELSE 4

\* The UTF-8 bytes of a code point.
Utf8Char(c) ==
    IF c < 128 THEN << c >>
    ELSE IF c < 2048 THEN << 192 + (c \div 64), 128 + (c % 64) >>
    ELSE IF c < 65536 THEN
        << 224 + (c \div 4096), 128 + ((c \div 64) % 64), 128 + (c % 64) >>
    ELSE << 240 + (c \div 262144), 128 + ((c \div 4096) % 64),
            128 + ((c \div 64) % 64), 128 + (c % 64) >>

\* str::as_bytes
RECURSIVE Utf8Bytes(_)
Utf8Bytes(s) == IF Len(s) = 0 THEN EMPTY ELSE Utf8Char(Head(s)) \o Utf8Bytes(Tail(s))

\* str::len, the length in bytes.
RECURSIVE ByteLen(_)
ByteLen(s) == IF Len(s) = 0 THEN 0 ELSE Utf8Len(Head(s)) + ByteLen(Tail(s))

IsCont(b) == b >= 128 /\ b <= 191

\* The length of the well-formed UTF-8 sequence that starts at bs[i], or 0.
Utf8SeqLen(bs, i) ==
    LET n == Len(bs)
        b0 == bs[i]
        b1 == bs[i + 1]
    IN  IF b0 < 128 THEN 1
        ELSE IF b0 >= 194 /\ b0 <= 223
            THEN IF i + 1 <= n /\ IsCont(b1) THEN 2 ELSE 0
        ELSE IF b0 >= 224 /\ b0 <= 239
            THEN IF /\ i + 2 <= n
                    /\ IsCont(b1) /\ IsCont(bs[i + 2])
                    /\ (b0 = 224 => b1 >= 160)
                    /\ (b0 = 237 => b1 <= 159)
                 THEN 3 ELSE 0
        ELSE IF b0 >= 240 /\ b0 <= 244
            THEN IF /\ i + 3 <= n
                    /\ IsCont(b1) /\ IsCont(bs[i + 2]) /\ IsCont(bs[i + 3])
                    /\ (b0 = 240 => b1 >= 144)
                    /\ (b0 = 244 => b1 <= 143)
                 THEN 4 ELSE 0
        ELSE 0

\* std::str::from_utf8(bs).is_ok(), from byte i on.
RECURSIVE Utf8Valid(_, _)
Utf8Valid(bs, i) ==
    IF i > Len(bs) THEN TRUE
    ELSE LET k == Utf8SeqLen(bs, i)
         IN  k > 0 /\ Utf8Valid(bs, i + k)

\* The code points of a well-formed byte string, from byte i on.
RECURSIVE Utf8Decode(_, _)
Utf8Decode(bs, i) ==
    IF i > Len(bs) THEN EMPTY
    ELSE LET k == Utf8SeqLen(bs, i)
             c == CASE k = 1 -> bs[i]
                    [] k = 2 -> (bs[i] - 192) * 64 + (bs[i + 1] - 128)
                    [] k = 3 -> (bs[i] - 224) * 4096 + (bs[i + 1] - 128) * 64
                                + (bs[i + 2] - 128)
                    [] OTHER -> (bs[i] - 240) * 262144 + (bs[i + 1] - 128) * 4096
                                + (bs[i + 2] - 128) * 64 + (bs[i + 3] - 128)
         IN  << c >> \o Utf8Decode(bs, i + k)

(* A panic of the Rust runtime, as the value of a string expression: no    *)
(* code point is negative.                                                 *)
PANIC == << -1 >>

\* Concatenation that a panic in either operand aborts.
Cat(a, b) == IF a = PANIC \/ b = PANIC THEN PANIC ELSE a \o b

\* The number of leading characters of s that make up exactly b bytes, or -1
\* when byte offset b lies inside a character or beyond the end.
RECURSIVE CharsAtByte(_, _)
CharsAtByte(s, b) ==
    IF b = 0 THEN 0
    ELSE IF Len(s) = 0 \/ Utf8Len(Head(s)) > b THEN -1
    ELSE LET r == CharsAtByte(Tail(s), b - Utf8Len(Head(s)))
         IN  IF r = -1 THEN -1 ELSE r + 1

(* &s[lo..hi] with byte offsets lo and hi (0-based, hi exclusive): Rust    *)
(* panics unless lo <= hi and both lie on character boundaries.            *)
ByteSlice(s, lo, hi) ==
    LET a == CharsAtByte(s, lo)
        b == CharsAtByte(s, hi)
    IN  IF lo > hi \/ a = -1 \/ b = -1 THEN PANIC
        ELSE SubSeq(s, a + 1, b)

\* &s[lo..]
ByteSliceFrom(s, lo) == ByteSlice(s, lo, ByteLen(s))

HexDigit(n) == IF n < 10 THEN 48 + n ELSE 55 + n
HexValue(c) == IF IsDigit(c) THEN c - 48 ELSE IF c >= 97 THEN c - 87 ELSE c - 55

\* format!("%{:02X}", b)
PctHex(b) == << PercentSign, HexDigit(b \div 16), HexDigit(b % 16) >>

----------------------------------------------------------------------------
(* The percent codec: decoding.                                            *)

\* Whether a match of %[0-9A-Za-z][0-9A-Za-z] starts at s[i].
IsTriplet(s, i) ==
    /\ i + 2 <= Len(s)
    /\ s[i] = PercentSign
    /\ IsAlnum(s[i + 1])
    /\ IsAlnum(s[i + 2])

\* The index after the longest match of ENCODED_AS_HEX that starts at s[i].
RECURSIVE RunEnd(_, _)
RunEnd(s, i) == IF IsTriplet(s, i) THEN RunEnd(s, i + 3) ELSE i

(* percent_encoding::percent_decode_str(s): '%' followed by two hex digits *)
(* becomes the byte they name; every other byte is kept.                   *)
RECURSIVE percent_decode_str(_)
percent_decode_str(bs) ==
    IF Len(bs) = 0 THEN EMPTY
    ELSE IF Len(bs) >= 3 /\ bs[1] = PercentSign /\ IsHex(bs[2]) /\ IsHex(bs[3])
        THEN << HexValue(bs[2]) * 16 + HexValue(bs[3]) >> \o percent_decode_str(Drop(bs, 3))
    ELSE << Head(bs) >> \o percent_decode_str(Tail(bs))

\* decode_uri_component_graceful giving up on a text that is not UTF-8.
decode_uri_component_graceful_giving_up(str) ==
    IF ByteLen(str) < 3 THEN str
    ELSE LET bytes == percent_decode_str(Utf8Bytes(str))
         IN  IF Utf8Valid(bytes, 1) THEN Utf8Decode(bytes, 1) ELSE str

RECURSIVE decode_uri_component_graceful(_)
decode_uri_component_graceful(str) ==
    IF ByteLen(str) < 3 THEN str
    ELSE LET bytes == percent_decode_str(Utf8Bytes(str))
         IN  IF Utf8Valid(bytes, 1) THEN Utf8Decode(bytes, 1)
             ELSE Cat(ByteSlice(str, 0, 3),
                      decode_uri_component_graceful(ByteSliceFrom(str, 3)))

\* The loop of percent_decode over the matches of ENCODED_AS_HEX, from s[i] on.
RECURSIVE DecodeFrom(_, _)
DecodeFrom(s, i) ==
    IF i > Len(s) THEN EMPTY
    ELSE IF IsTriplet(s, i)
        THEN LET e == RunEnd(s, i)
             IN  decode_uri_component_graceful(SubSeq(s, i, e - 1)) \o DecodeFrom(s, e)
    ELSE << s[i] >> \o DecodeFrom(s, i + 1)

percent_decode(str) == DecodeFrom(str, 1)

----------------------------------------------------------------------------
(* The URI value and its validation.                                       *)

MkURI(s, a, p, q, f) == [scheme |-> s, authority |-> a, path |-> p, query |-> q, fragment |-> f]

\* No URI: the receiver of an operation that has none.
NoURI == MkURI(PANIC, PANIC, PANIC, PANIC, PANIC)

\* Result<URI, UriError>, and a panic of the operation.
Ok(u) == [kind |-> "ok", uri |-> u, err |-> "none"]
Err(e) == [kind |-> "err", uri |-> NoURI, err |-> e]
Panicked == [kind |-> "panic", uri |-> NoURI, err |-> "none"]

\* A String that an operation returns, or the panic that kept it from returning.
Text(s) == IF s = PANIC THEN Panicked
           ELSE [kind |-> "str", uri |-> NoURI, err |-> "none", str |-> s]

\* SCHEME_PATTERN: ^[a-zA-Z][a-zA-Z0-9+.-]*$
SCHEME_PATTERN(s) ==
    /\ Len(s) >= 1
    /\ IsAlpha(s[1])
    /\ \A i \in 2..Len(s) : IsAlnum(s[i]) \/ s[i] \in {43, Period, Dash}

\* SINGLE_SLASH_START: ^/     DOUBLE_SLASH_START: ^//
SINGLE_SLASH_START(s) == StartsWith(s, SLASH)
DOUBLE_SLASH_START(s) == StartsWith(s, << Slash, Slash >>)

\* validate_uri with the check of the path against the authority left out.
validate_uri_without_authority_check(uri, strict) ==
    IF uri.scheme = EMPTY /\ strict THEN "MissingScheme"
    ELSE IF uri.scheme # EMPTY /\ ~SCHEME_PATTERN(ToLower(uri.scheme))
        THEN "IllegalSchemeCharacters"
    ELSE IF uri.path # EMPTY /\ uri.authority = EMPTY /\ DOUBLE_SLASH_START(uri.path)
        THEN "InvalidPathWithoutAuthority"
    ELSE "ok"

\* validate_uri: "ok" or the error it returns.
validate_uri(uri, strict) ==
    IF uri.scheme = EMPTY /\ strict THEN "MissingScheme"
    ELSE IF uri.scheme # EMPTY /\ ~SCHEME_PATTERN(ToLower(uri.scheme))
        THEN "IllegalSchemeCharacters"
    ELSE IF uri.path # EMPTY /\ uri.authority # EMPTY /\ ~SINGLE_SLASH_START(uri.path)
        THEN "InvalidAuthorityPath"
    ELSE IF uri.path # EMPTY /\ uri.authority = EMPTY /\ DOUBLE_SLASH_START(uri.path)
        THEN "InvalidPathWithoutAuthority"
    ELSE "ok"

scheme_fix(scheme, strict) == IF scheme = EMPTY /\ ~strict THEN S_file ELSE scheme

\* reference_resolution that leaves every path as it is given.
reference_resolution_as_given(scheme, path) == path

reference_resolution(scheme, path) ==
    IF scheme \in {S_https, S_http, S_file}
    THEN IF path = EMPTY THEN SLASH
         ELSE IF ~StartsWith(path, SLASH) THEN SLASH \o path
         ELSE path
    ELSE path

\* URI::new
New(scheme, authority, path, query, fragment) ==
    LET s == scheme_fix(scheme, FALSE)
        p == reference_resolution(s, path)
        uri == MkURI(s, authority, p, query, fragment)
        v == validate_uri(uri, FALSE)
    IN  IF v = "ok" THEN Ok(uri) ELSE Err(v)

\* URI::from
From(c) == New(c.scheme, c.authority, c.path, c.query, c.fragment)

----------------------------------------------------------------------------
(* Parsing.                                                                *)

Delims == {Colon, Slash, QuestionMark, Hash}

(* URI_REGEX as the captures 2, 4, 5, 7 and 9 of its match: an optional    *)
(* scheme, one or more characters other than : / ? # and then ':'; an      *)
(* optional "//" and authority, which runs to the next / ? or #; the path, *)
(* which runs to the next ? or #; an optional '?' and query, which runs to *)
(* the next #; an optional '#' and fragment, which runs to the end of the  *)
(* line.  A group that did not take part is the empty string, as           *)
(* map_or(EMPTY, ..) makes it.                                             *)
URI_REGEX(value) ==
    LET d == FindFrom(value, Delims, 1)
        hasScheme == d >= 2 /\ value[d] = Colon
        c2 == IF hasScheme THEN Take(value, d - 1) ELSE EMPTY
        r1 == IF hasScheme THEN Drop(value, d) ELSE value
        hasAuth == StartsWith(r1, << Slash, Slash >>)
        a == FindFrom(r1, {Slash, QuestionMark, Hash}, 3)
        aEnd == IF a = 0 THEN Len(r1) + 1 ELSE a
        c4 == IF hasAuth THEN SubSeq(r1, 3, aEnd - 1) ELSE EMPTY
        r2 == IF hasAuth THEN Drop(r1, aEnd - 1) ELSE r1
        p == FindFrom(r2, {QuestionMark, Hash}, 1)
        pEnd == IF p = 0 THEN Len(r2) + 1 ELSE p
        c5 == Take(r2, pEnd - 1)
        r3 == Drop(r2, pEnd - 1)
        hasQuery == Len(r3) > 0 /\ r3[1] = QuestionMark
        q == FindFrom(r3, {Hash}, 2)
        qEnd == IF q = 0 THEN Len(r3) + 1 ELSE q
        c7 == IF hasQuery THEN SubSeq(r3, 2, qEnd - 1) ELSE EMPTY
        r4 == IF hasQuery THEN Drop(r3, qEnd - 1) ELSE r3
        hasFrag == Len(r4) > 0 /\ r4[1] = Hash
        n == FindFrom(r4, {LineFeed}, 2)
        fEnd == IF n = 0 THEN Len(r4) + 1 ELSE n
        c9 == IF hasFrag THEN SubSeq(r4, 2, fEnd - 1) ELSE EMPTY
    IN  MkURI(c2, c4, c5, c7, c9)

\* parse_with_strict that hands the captures to URI::new without decoding them.
parse_with_strict_undecoded(value, strict) ==
    IF value = EMPTY THEN New(EMPTY, EMPTY, EMPTY, EMPTY, EMPTY)
    ELSE LET c == URI_REGEX(value)
         IN  New(c.scheme, c.authority, c.path, c.query, c.fragment)

\* URI::parse_with_strict; the code does not read its `_strict` parameter.
parse_with_strict(value, strict) ==
    IF value = EMPTY THEN New(EMPTY, EMPTY, EMPTY, EMPTY, EMPTY)
    ELSE LET c == URI_REGEX(value)
         IN  New(c.scheme, percent_decode(c.authority), percent_decode(c.path),
                 percent_decode(c.query), percent_decode(c.fragment))

\* URI::parse
Parse(value) == parse_with_strict(value, FALSE)

----------------------------------------------------------------------------
(* Derivation.                                                             *)

\* Option<String>: None, or Some(v) as << v >>.
None == << >>
Some(v) == << v >>
UnwrapOr(o, d) == IF o = None THEN d ELSE o[1]

\* URIChange
MkChange(s, a, p, q, f) == [scheme |-> s, authority |-> a, path |-> p, query |-> q, fragment |-> f]
\* The change of the path that empties the query as well.
PathChange_emptying_query(p) == MkChange(None, None, Some(p), Some(EMPTY), None)

PathChange(p) == MkChange(None, None, Some(p), None, None)

\* The merge with the query of the change set left out.
Merged_without_query(self, change) ==
    MkURI(UnwrapOr(change.scheme, self.scheme),
          UnwrapOr(change.authority, self.authority),
          UnwrapOr(change.path, self.path),
          self.query,
          UnwrapOr(change.fragment, self.fragment))

\* The merge at the head of URI::with.
Merged(self, change) ==
    MkURI(UnwrapOr(change.scheme, self.scheme),
          UnwrapOr(change.authority, self.authority),
          UnwrapOr(change.path, self.path),
          UnwrapOr(change.query, self.query),
          UnwrapOr(change.fragment, self.fragment))

\* URI::with that returns the merged fields without handing them to URI::new.
With_unvalidated(self, change) == Ok(Merged(self, change))

\* URI::with
With(self, change) ==
    LET m == Merged(self, change)
    IN  IF m = self THEN Ok(self)
        ELSE New(m.scheme, m.authority, m.path, m.query, m.fragment)

----------------------------------------------------------------------------
(* The percent codec: encoding.                                            *)

\* percent_encoding::percent_encode(bytes, CONTROLS): the C0 controls, DEL and
\* every byte above 0x7F are escaped, all other bytes are kept.
RECURSIVE percent_encode(_)
percent_encode(bs) ==
    IF Len(bs) = 0 THEN EMPTY
    ELSE (IF Head(bs) < 32 \/ Head(bs) >= 127 THEN PctHex(Head(bs)) ELSE << Head(bs) >>)
         \o percent_encode(Tail(bs))

\* bytes.iter().map(|b| format!("%{:02X}", b)).collect()
RECURSIVE PctHexAll(_)
PctHexAll(bs) == IF Len(bs) = 0 THEN EMPTY ELSE PctHex(Head(bs)) \o PctHexAll(Tail(bs))

\* The test for an unreserved character at the head of the loop.
Unreserved(code, is_path, is_authority) ==
    \/ IsLower(code) \/ IsUpper(code) \/ IsDigit(code)
    \/ code \in {Dash, Period, Underline, Tilde}
    \/ (is_path /\ code = Slash)
    \/ (is_authority /\ code \in {OpenSquareBracket, CloseSquareBracket, Colon})

(* The flush of a delayed native encode: the text from byte offset pos to  *)
(* byte offset hi is percent-encoded, upper-cased and appended to res (to  *)
(* the text before pos when there is no res yet).                          *)
NativeFlush(s, r, pos, hi) ==
    LET piece == ByteSlice(s, pos, hi)
        encoded == IF piece = PANIC THEN PANIC ELSE ToUpper(percent_encode(Utf8Bytes(piece)))
        before == IF r = None THEN ByteSlice(s, 0, pos) ELSE r[1]
    IN  Some(Cat(before, encoded))

(* One pass of the loop of encode_uri_component_fast, for the character at *)
(* index i (0-based), from the values r of res and pos of                  *)
(* native_encode_pos to their values after the pass.  The code uses the    *)
(* character index i as a byte offset when it slices.                      *)
EncodeStep(s, is_path, is_authority, i, r, pos) ==
    LET code == s[i + 1]
    IN  IF Unreserved(code, is_path, is_authority)
        THEN LET r1 == IF pos # -1 THEN NativeFlush(s, r, pos, i) ELSE r
             IN  [res |-> IF r1 # None THEN Some(Cat(r1[1], << code >>)) ELSE r1,
                  pos |-> -1]
        ELSE LET r1 == IF r = None THEN Some(ByteSlice(s, 0, i)) ELSE r
                 hasEscape == (code = Backslash /\ is_path) \/ code \in ENCODE_TABLE
             IN  IF hasEscape
                 THEN LET r2 == IF pos # -1 THEN NativeFlush(s, r1, pos, i) ELSE r1
                      IN  [res |-> Some(Cat(r2[1], PctHex(code))), pos |-> -1]
                 ELSE IF code > 127
                 THEN [res |-> Some(Cat(r1[1], PctHexAll(Utf8Char(code)))), pos |-> pos]
                 ELSE [res |-> r1, pos |-> IF pos = -1 THEN i ELSE pos]

(* The loop from index i on, and the flush after it.  st holds res and     *)
(* native_encode_pos; the state after a pass is bound as a value, so that  *)
(* it is computed once.                                                    *)
RECURSIVE EncodeLoop(_, _, _, _, _)
EncodeLoop(s, is_path, is_authority, i, st) ==
    IF i >= Len(s)
    THEN LET r1 == IF st.pos # -1 THEN NativeFlush(s, st.res, st.pos, ByteLen(s))
                   ELSE st.res
         IN  UnwrapOr(r1, s)
    ELSE CHOOSE out \in
            { EncodeLoop(s, is_path, is_authority, j, next) :
                j \in { i + 1 },
                next \in { EncodeStep(s, is_path, is_authority, i, st.res, st.pos) } } : TRUE

encode_uri_component_fast(uri_component, is_path, is_authority) ==
    CHOOSE out \in
        { EncodeLoop(text, is_path, is_authority, 0, [res |-> None, pos |-> -1]) :
            text \in { uri_component } } : TRUE

\* encode_uri_component_minimal escaping nothing.
encode_uri_component_minimal_verbatim(uri_component) == uri_component

RECURSIVE encode_uri_component_minimal(_)
encode_uri_component_minimal(s) ==
    IF Len(s) = 0 THEN EMPTY
    ELSE (IF Head(s) \in {Hash, QuestionMark} THEN PctHex(Head(s)) ELSE << Head(s) >>)
         \o encode_uri_component_minimal(Tail(s))

----------------------------------------------------------------------------
(* The formatter.                                                          *)

\* The closure `encoder` of as_formatted.
Encoder(skip_encoding, win, s, is_path, is_authority) ==
    IF skip_encoding THEN encode_uri_component_minimal(s)
    ELSE encode_uri_component_fast(
             IF is_path /\ win THEN Replace(s, Backslash, PctHex(Backslash)) ELSE s,
             is_path, is_authority)

(* The host part of the authority: lower-cased, encoded up to its last ':' *)
(* (all of it when it has none) and emitted as it is from there on.        *)
FormatHost(skip_encoding, win, host) ==
    LET a == ToLower(host)
        idx == RFind(a, Colon)
    IN  Cat(Encoder(skip_encoding, win, IF idx # 0 THEN Take(a, idx - 1) ELSE a, FALSE, TRUE),
            IF idx # 0 THEN Drop(a, idx - 1) ELSE EMPTY)

\* FormatUserInfo with the user information lower-cased like the host.
FormatUserInfo_lower_cased(skip_encoding, win, userinfo) ==
    LET u == ToLower(userinfo)
        idx == RFind(u, Colon)
    IN  Cat(Cat(Encoder(skip_encoding, win, IF idx # 0 THEN Take(u, idx - 1) ELSE u, FALSE, FALSE),
                IF idx # 0
                THEN Cat(<< Colon >>, Encoder(skip_encoding, win, Drop(u, idx), FALSE, TRUE))
                ELSE EMPTY),
            << AtSign >>)

(* The user information before the first '@' with the '@': the text before *)
(* its last ':' and the text after it are encoded apart; without a ':'     *)
(* all of it is encoded.                                                   *)
FormatUserInfo(skip_encoding, win, userinfo) ==
    LET idx == RFind(userinfo, Colon)
    IN  Cat(Cat(Encoder(skip_encoding, win,
                        IF idx # 0 THEN Take(userinfo, idx - 1) ELSE userinfo, FALSE, FALSE),
                IF idx # 0
                THEN Cat(<< Colon >>,
                         Encoder(skip_encoding, win, Drop(userinfo, idx), FALSE, TRUE))
                ELSE EMPTY),
            << AtSign >>)

FormatAuthority(skip_encoding, win, authority) ==
    LET at == Find(authority, AtSign)
    IN  Cat(IF at # 0 THEN FormatUserInfo(skip_encoding, win, Take(authority, at - 1))
            ELSE EMPTY,
            FormatHost(skip_encoding, win, IF at # 0 THEN Drop(authority, at) ELSE authority))

\* The path with an upper-case drive letter lower-cased.
FormatDrive(path) ==
    IF ByteLen(path) >= 3
    THEN IF Len(path) >= 3 /\ path[1] = Slash /\ path[3] = Colon /\ IsUpper(path[2])
         THEN << Slash, path[2] + 32 >> \o Drop(path, 2)
         ELSE path
    ELSE IF ByteLen(path) >= 2
    THEN IF Len(path) >= 2 /\ path[2] = Colon /\ IsUpper(path[1])
         THEN << path[1] + 32 >> \o Drop(path, 1)
         ELSE path
    ELSE path

FormatQuery(skip_encoding, win, query) ==
    IF skip_encoding THEN Replace(query, Hash, PctHex(Hash))
    ELSE Encoder(skip_encoding, win, query, FALSE, FALSE)

FormatFragment(skip_encoding, fragment) ==
    IF ~skip_encoding THEN encode_uri_component_fast(fragment, FALSE, FALSE)
    ELSE fragment

(* as_formatted under the platform flag win, as the concatenation of what  *)
(* it pushes to its result in turn; PANIC when the code panics.            *)
as_formatted(uri, skip_encoding, win) ==
    Cat(Cat(Cat(Cat(Cat(
        IF uri.scheme # EMPTY THEN uri.scheme \o << Colon >> ELSE EMPTY,
        IF uri.authority # EMPTY \/ uri.scheme = S_file THEN << Slash, Slash >> ELSE EMPTY),
        IF uri.authority # EMPTY
        THEN FormatAuthority(skip_encoding, win, uri.authority) ELSE EMPTY),
        IF uri.path # EMPTY
        THEN Encoder(skip_encoding, win, FormatDrive(uri.path), TRUE, FALSE) ELSE EMPTY),
        IF uri.query # EMPTY
        THEN Cat(<< QuestionMark >>, FormatQuery(skip_encoding, win, uri.query)) ELSE EMPTY),
        IF uri.fragment # EMPTY
        THEN Cat(<< Hash >>, FormatFragment(skip_encoding, uri.fragment)) ELSE EMPTY)

----------------------------------------------------------------------------
(* The filesystem path converter.                                          *)

\* uri_to_fs_path under the platform flag win.
uri_to_fs_path(uri, keep_drive_letter_casing, win) ==
    LET p == uri.path
        value ==
            IF uri.authority # EMPTY /\ ByteLen(p) > 1 /\ uri.scheme = S_file
            THEN << Slash, Slash >> \o uri.authority \o p
            ELSE IF Len(p) >= 3 /\ p[1] = Slash /\ IsAlpha(p[2]) /\ p[3] = Colon
            THEN IF ~keep_drive_letter_casing
                 THEN << ToLowerChar(p[2]) >> \o Drop(p, 2)
                 ELSE Drop(p, 1)
            ELSE p
        decoded == percent_decode(value)
    IN  IF win THEN Replace(decoded, Slash, << Backslash >>) ELSE decoded

\* URI::fs_path
fs_path(uri, win) == uri_to_fs_path(uri, FALSE, win)

\* URI::to_string
to_string(uri, skip_encoding, win) == as_formatted(uri, skip_encoding, win)

\* URI::file that takes no authority out of a path that starts with "//".
File_without_unc(path, win) ==
    LET p0 == IF win THEN Replace(path, Backslash, SLASH) ELSE path
        p2 == IF ByteLen(p0) >= 2 /\ Len(p0) >= 2 /\ p0[2] = Colon
              THEN Cat(<< Slash, ToLowerChar(p0[1]), Colon >>, ByteSliceFrom(p0, 2))
              ELSE p0
    IN  IF p2 = PANIC THEN Panicked
        ELSE New(S_file, EMPTY, p2, EMPTY, EMPTY)

\* URI::file under the platform flag win.
File(path, win) ==
    LET p0 == IF win THEN Replace(path, Backslash, SLASH) ELSE path
        unc == StartsWith(p0, SLASH) /\ Len(p0) >= 2 /\ p0[2] = Slash
        j == FindFrom(p0, {Slash}, 3)
        idx == IF j = 0 THEN Len(p0) + 1 ELSE j
        authority ==
            IF ~unc THEN EMPTY
            ELSE IF idx = 3 THEN Drop(p0, 2)
            ELSE SubSeq(p0, 3, idx - 1)
        p1 == IF ~unc THEN p0
              ELSE IF idx = 3 THEN SLASH
              ELSE IF idx <= Len(p0) THEN Drop(p0, idx - 1)
              ELSE SLASH
        p2 == IF ByteLen(p1) >= 2 /\ Len(p1) >= 2 /\ p1[2] = Colon
              THEN Cat(<< Slash, ToLowerChar(p1[1]), Colon >>, ByteSliceFrom(p1, 2))
              ELSE p1
    IN  IF p2 = PANIC THEN Panicked
        ELSE New(S_file, authority, p2, EMPTY, EMPTY)

----------------------------------------------------------------------------
(* The path utilities (src/src/utils.rs).                                  *)

DOT == << Period >>
DOTDOT == << Period, Period >>

\* The loop of normalize_path over the segments, with the stack so far.
RECURSIVE NormalizeStack(_, _, _)
NormalizeStack(segments, stack, absolute) ==
    IF Len(segments) = 0 THEN stack
    ELSE LET segment == Head(segments)
             rest == Tail(segments)
         IN  IF segment = EMPTY \/ segment = DOT
             THEN NormalizeStack(rest, stack, absolute)
             ELSE IF segment = DOTDOT
             THEN IF Len(stack) > 0 /\ stack[Len(stack)] # DOTDOT
                  THEN NormalizeStack(rest, Take(stack, Len(stack) - 1), absolute)
                  ELSE IF ~absolute
                  THEN NormalizeStack(rest, Append(stack, DOTDOT), absolute)
                  ELSE NormalizeStack(rest, stack, absolute)
             ELSE NormalizeStack(rest, Append(stack, segment), absolute)

\* normalize_path that puts nothing in place of an empty stack.
NormalizeEmpty_nothing(absolute) == EMPTY

\* What normalize_path puts in place of an empty stack.
NormalizeEmpty(absolute) == IF absolute THEN EMPTY ELSE DOT

\* Utils::normalize_path
normalize_path(path) ==
    IF path = EMPTY THEN DOT
    ELSE LET had_trailing_slash == EndsWith(path, SLASH) /\ path # SLASH
             absolute == StartsWith(path, SLASH)
             stack == NormalizeStack(Split(path, Slash), << >>, absolute)
             lead == IF absolute THEN SLASH ELSE EMPTY
             body == IF Len(stack) > 0 THEN Join(stack, SLASH) ELSE NormalizeEmpty(absolute)
         IN  lead \o body \o (IF had_trailing_slash THEN SLASH ELSE EMPTY)

\* The loop of join_path: the concatenation of the path with the segments.
RECURSIVE JoinConcat(_, _)
JoinConcat(result, paths) ==
    IF Len(paths) = 0 THEN result
    ELSE JoinConcat(IF EndsWith(result, SLASH) THEN result \o Head(paths)
                    ELSE result \o SLASH \o Head(paths),
                    Tail(paths))

\* The path that join_path hands to `with`.
JoinedPath(path, paths) ==
    LET had_trailing_slash ==
            IF Len(paths) = 0 THEN EndsWith(path, SLASH)
            ELSE EndsWith(paths[Len(paths)], SLASH)
        normalized == normalize_path(JoinConcat(path, paths))
    IN  IF had_trailing_slash /\ ~EndsWith(normalized, SLASH)
        THEN normalized \o SLASH ELSE normalized

\* Utils::join_path
join_path(uri, paths) == With(uri, PathChange(JoinedPath(uri.path, paths)))

\* The inner loop of resolve_path: one segment of a relative path at a time.
RECURSIVE ResolveSegments(_, _)
ResolveSegments(segments, path_segments) ==
    IF Len(path_segments) = 0 THEN segments
    ELSE LET segment == Head(path_segments)
             rest == Tail(path_segments)
         IN  IF segment = DOT THEN ResolveSegments(segments, rest)
             ELSE IF segment = DOTDOT
             THEN ResolveSegments(IF Len(segments) > 1
                                  THEN Take(segments, Len(segments) - 1)
                                  ELSE segments, rest)
             ELSE ResolveSegments(Append(segments, segment), rest)

\* The outer loop of resolve_path with no segment replacing the result: a
\* segment that starts with '/' is resolved against the result like any other.
RECURSIVE ResolveLoop_never_replacing(_, _)
ResolveLoop_never_replacing(result, paths) ==
    IF Len(paths) = 0 THEN result
    ELSE LET joined == Join(ResolveSegments(Split(result, Slash), Split(Head(paths), Slash)),
                            SLASH)
         IN  ResolveLoop_never_replacing(IF joined = EMPTY THEN SLASH ELSE joined, Tail(paths))

\* The outer loop of resolve_path.
RECURSIVE ResolveLoop(_, _)
ResolveLoop(result, paths) ==
    IF Len(paths) = 0 THEN result
    ELSE LET path == Head(paths)
             joined == Join(ResolveSegments(Split(result, Slash), Split(path, Slash)), SLASH)
         IN  ResolveLoop(IF StartsWith(path, SLASH) THEN path
                         ELSE IF joined = EMPTY THEN SLASH
                         ELSE joined,
                         Tail(paths))

\* The path of resolve_path with its trailing '/' left in place.
ResolvedPath_untrimmed(uri, paths) ==
    LET slash_added == ~StartsWith(uri.path, SLASH)
        base == IF slash_added THEN SLASH \o uri.path ELSE uri.path
        normalized == normalize_path(ResolveLoop(base, paths))
    IN  IF slash_added /\ uri.authority = EMPTY /\ StartsWith(normalized, SLASH)
        THEN IF normalized = SLASH THEN EMPTY ELSE Drop(normalized, 1)
        ELSE normalized

\* The path that resolve_path hands to `with`.
ResolvedPath(uri, paths) ==
    LET slash_added == ~StartsWith(uri.path, SLASH)
        base == IF slash_added THEN SLASH \o uri.path ELSE uri.path
        normalized == normalize_path(ResolveLoop(base, paths))
        final_path ==
            IF slash_added /\ uri.authority = EMPTY /\ StartsWith(normalized, SLASH)
            THEN IF normalized = SLASH THEN EMPTY ELSE Drop(normalized, 1)
            ELSE normalized
    IN  IF ByteLen(final_path) > 1 /\ EndsWith(final_path, SLASH)
        THEN Take(final_path, Len(final_path) - 1)
        ELSE final_path

\* Utils::resolve_path
resolve_path(uri, paths) == With(uri, PathChange(ResolvedPath(uri, paths)))

\* The removal of a single trailing slash, except for the root.
TrimSlashes_once(path) ==
    IF ByteLen(path) > 1 /\ EndsWith(path, SLASH) THEN Take(path, Len(path) - 1) ELSE path

\* The loop that removes trailing slashes, except for the root.
RECURSIVE TrimSlashes(_)
TrimSlashes(path) ==
    IF ByteLen(path) > 1 /\ EndsWith(path, SLASH)
    THEN TrimSlashes(Take(path, Len(path) - 1))
    ELSE path

\* Utils::dirname
dirname(uri) ==
    IF uri.path = EMPTY \/ uri.path = SLASH THEN Ok(uri)
    ELSE LET path == TrimSlashes(uri.path)
             i == RFind(path, Slash)
             new_path == IF i = 1 THEN SLASH
                         ELSE IF i > 1 THEN Take(path, i - 1)
                         ELSE EMPTY
         IN  With(uri, PathChange(new_path))

\* Utils::basename
basename(uri) ==
    IF uri.path = EMPTY \/ uri.path = SLASH THEN EMPTY
    ELSE LET path == TrimSlashes(uri.path)
         IN  Drop(path, RFind(path, Slash))

\* Utils::extname
extname(uri) ==
    IF uri.path = EMPTY \/ uri.path = SLASH THEN EMPTY
    ELSE LET path == TrimSlashes(uri.path)
             filename == Drop(path, RFind(path, Slash))
             last_dot == RFind(filename, Period)
         IN  IF last_dot > 1 /\ last_dot < Len(filename)
             THEN Drop(filename, last_dot - 1)
             ELSE EMPTY

----------------------------------------------------------------------------
(* The inputs of the model.                                                *)

\* The longest path string an operation is given.
MaxPathLen == 2
\* The most segments join_path and resolve_path are given.
MaxSegs == 1

\* The strings over an alphabet of length at most n.
StringsUpTo(alphabet, n) == UNION { [1..k -> alphabet] : k \in 0..n }

S_foo == << 102, 111, 111 >>
\* "fai:l", a scheme with an illegal character
S_fail == << 102, 97, 105, 58, 108 >>
\* U+212A KELVIN SIGN, whose lower-case form is 'k'
S_kelvin == << 8490 >>
S_a == << 97 >>
S_q == << 113 >>
S_f == << 102 >>

Schemes == { EMPTY, S_file, S_http, S_https, S_foo, S_fail, S_kelvin }
Authorities == { EMPTY, S_a }
Paths == StringsUpTo({Slash, 97}, MaxPathLen)
Queries == { EMPTY, S_q }
Fragments == { EMPTY, S_f }

Opt(S) == { None } \cup { Some(v) : v \in S }

\* Change sets for `with`.
Changes ==
    { MkChange(s, a, p, q, f) :
        s \in Opt(Schemes), a \in Opt(Authorities), p \in Opt(Paths),
        q \in Opt(Queries), f \in { None, Some(S_f) } }

\* Raw strings for parse: scheme, authority, path, query and fragment parts.
ParseInputs ==
    { sp \o ap \o p \o qp \o fp :
        sp \in { EMPTY, S_file \o << Colon >>, S_http \o << Colon >>, S_foo \o << Colon >>,
                 S_kelvin \o << Colon >> },
        ap \in { EMPTY, << Slash, Slash >>, << Slash, Slash, 97 >> },
        p \in Paths,
        qp \in { EMPTY, << QuestionMark, 113 >> },
        fp \in { EMPTY, << Hash, 102 >> } }

\* Native paths for file.
NativePaths == Paths

\* Segments for join_path and resolve_path, and lists of them.
Segments == { S_a, DOTDOT, << Slash, 97 >>, << 97, Slash >>, DOT }
SegLists == StringsUpTo(Segments, MaxSegs)

----------------------------------------------------------------------------
(* The state machine: a caller that constructs URIs, keeps the ones it is  *)
(* returned and derives new ones from them.  A constructor takes no        *)
(* receiver, so what it returns does not depend on what the caller holds:  *)
(* the model calls it from a caller that holds nothing.                    *)

NoArg == [name |-> "none"]

\* Nothing has been returned yet.
NoResult == [kind |-> "none", uri |-> NoURI, err |-> "none"]

Init ==
    /\ isWindows = FALSE
    /\ recv = NoURI
    /\ op = "init"
    /\ arg = NoArg
    /\ res = NoResult

\* The caller holds no URI.
Fresh == op = "init"

\* The caller holds the URI res.uri and has no call in progress.
Holding == op = "keep"

\* platform::test_utils::set_is_windows
SetIsWindows(value) ==
    /\ Fresh \/ Holding
    /\ isWindows' = value
    /\ UNCHANGED << recv, op, arg, res >>

(* The caller binds the URI it was returned.  The bound on the path keeps   *)
(* the URIs a caller derives from, and so their paths, from growing        *)
(* without end.                                                            *)
Keep ==
    /\ op \notin {"init", "keep"}
    /\ res.kind = "ok"
    /\ Len(res.uri.path) <= MaxPathLen
    /\ op' = "keep"
    /\ arg' = NoArg
    /\ recv' = NoURI
    /\ UNCHANGED << isWindows, res >>

DoNew ==
    /\ Fresh
    /\ \E s \in Schemes, a \in Authorities, p \in Paths, q \in Queries, f \in Fragments :
        /\ op' = "new"
        /\ arg' = MkURI(s, a, p, q, f)
        /\ recv' = NoURI
        /\ res' = New(s, a, p, q, f)
        /\ UNCHANGED isWindows

DoFrom ==
    /\ Fresh
    /\ \E s \in Schemes, a \in Authorities, p \in Paths, q \in Queries, f \in Fragments :
        /\ op' = "from"
        /\ arg' = MkURI(s, a, p, q, f)
        /\ recv' = NoURI
        /\ res' = From(MkURI(s, a, p, q, f))
        /\ UNCHANGED isWindows

\* URI::parse(value), which is parse_with_strict(value, false), and
\* URI::parse_with_strict(value, true)
DoParse ==
    /\ Fresh
    /\ \E value \in ParseInputs, strict \in BOOLEAN :
        /\ op' = IF strict THEN "parse_with_strict" ELSE "parse"
        /\ arg' = [name |-> IF strict THEN "parse_with_strict" ELSE "parse",
                   value |-> value, strict |-> strict]
        /\ recv' = NoURI
        /\ res' = parse_with_strict(value, strict)
        /\ UNCHANGED isWindows

DoFile ==
    /\ Fresh
    /\ \E path \in NativePaths :
        /\ op' = "file"
        /\ arg' = [name |-> "file", path |-> path]
        /\ recv' = NoURI
        /\ res' = File(path, isWindows)
        /\ UNCHANGED isWindows

DoWith ==
    /\ Holding
    /\ \E change \in Changes :
        /\ op' = "with"
        /\ arg' = change
        /\ recv' = res.uri
        /\ res' = With(res.uri, change)
        /\ UNCHANGED isWindows

DoJoinPath ==
    /\ Holding
    /\ \E paths \in SegLists :
        /\ op' = "join_path"
        /\ arg' = [name |-> "join_path", paths |-> paths]
        /\ recv' = res.uri
        /\ res' = join_path(res.uri, paths)
        /\ UNCHANGED isWindows

DoResolvePath ==
    /\ Holding
    /\ \E paths \in SegLists :
        /\ op' = "resolve_path"
        /\ arg' = [name |-> "resolve_path", paths |-> paths]
        /\ recv' = res.uri
        /\ res' = resolve_path(res.uri, paths)
        /\ UNCHANGED isWindows

DoDirname ==
    /\ Holding
    /\ op' = "dirname"
    /\ arg' = [name |-> "dirname"]
    /\ recv' = res.uri
    /\ res' = dirname(res.uri)
    /\ UNCHANGED isWindows

\* A process that may set the platform flag between its calls.
Next ==
    \/ \E value \in BOOLEAN : SetIsWindows(value)
    \/ Keep
    \/ DoNew
    \/ DoFrom
    \/ DoParse
    \/ DoFile
    \/ DoWith
    \/ DoJoinPath
    \/ DoResolvePath
    \/ DoDirname

Spec == Init /\ [][Next]_vars

----------------------------------------------------------------------------
(* Properties of the constructing and deriving operations, stated of a     *)
(* specification's states: op names the last operation, arg what it was    *)
(* given, recv its receiver and res what it returned.                      *)

\* The schemes that reference_resolution treats as implying an authority.
AuthoritySchemes == { S_http, S_https, S_file }

Constructed == op \in {"new", "from", "parse", "with"}

(* The field tuple that the last constructing operation handed to URI::new: *)
(* the arguments of new and from, the decoded captures of parse, the       *)
(* receiver's fields overridden by the change set of with.                 *)
Given ==
    IF op = "parse"
    THEN LET c == URI_REGEX(arg.value)
         IN  MkURI(c.scheme, percent_decode(c.authority), percent_decode(c.path),
                   percent_decode(c.query), percent_decode(c.fragment))
    ELSE IF op = "with"
    THEN MkURI(UnwrapOr(arg.scheme, recv.scheme), UnwrapOr(arg.authority, recv.authority),
               UnwrapOr(arg.path, recv.path), UnwrapOr(arg.query, recv.query),
               UnwrapOr(arg.fragment, recv.fragment))
    ELSE arg

\* The scheme of Given once an empty scheme has become "file".
GivenScheme == IF Given.scheme = EMPTY THEN S_file ELSE Given.scheme

(* C1: whatever sequence of new, parse, file, from, with, join_path,        *)
(* resolve_path and dirname calls has been made, a URI returned as a       *)
(* success value that has a non-empty authority has a path that is empty   *)
(* or starts with '/'.                                                     *)
C1_AuthorityPath ==
    res.kind = "ok" =>
        (res.uri.authority # EMPTY =>
            (res.uri.path = EMPTY \/ Head(res.uri.path) = Slash))

\* C1: `with` has given an authority and an absolute path to a URI with the
\* relative path "a".
C1_Witness ==
    /\ op = "with"
    /\ res.kind = "ok"
    /\ recv.authority = EMPTY
    /\ recv.path = S_a
    /\ res.uri.authority = S_a
    /\ res.uri.path = << Slash, 97 >>

(* C2: a URI that new, parse, file, from or with returns as a success      *)
(* value has a scheme that is one ASCII letter followed by ASCII letters,  *)
(* ASCII digits, '+', '-' or '.', and a given scheme of any other form     *)
(* (the empty scheme apart, which becomes "file") makes the operation      *)
(* return IllegalSchemeCharacters.                                         *)
C2_SchemePattern ==
    /\ (op \in {"new", "from", "parse", "with", "file"} /\ res.kind = "ok") =>
            (res.uri.scheme = EMPTY \/ SCHEME_PATTERN(res.uri.scheme))
    /\ (Constructed /\ Given.scheme # EMPTY /\ ~SCHEME_PATTERN(Given.scheme)) =>
            res.err = "IllegalSchemeCharacters"

(* C3: a URI returned as a success value whose scheme is http, https or    *)
(* file has a path that starts with '/'; new turns the empty path into "/" *)
(* and puts '/' before a path that does not start with it, so that with    *)
(* one of these schemes no operation returns InvalidAuthorityPath.         *)
C3_AuthoritySchemePath ==
    /\ (res.kind = "ok" /\ res.uri.scheme \in AuthoritySchemes) =>
            StartsWith(res.uri.path, SLASH)
    /\ (Constructed /\ GivenScheme \in AuthoritySchemes) =>
            /\ res.err # "InvalidAuthorityPath"
            /\ res.kind = "ok" =>
                   res.uri.path = (IF Given.path = EMPTY THEN SLASH
                                   ELSE IF Head(Given.path) # Slash THEN SLASH \o Given.path
                                   ELSE Given.path)

\* C3: new was given scheme http, an authority and the relative path "a", and
\* returned a URI with the path "/a".
C3_Witness ==
    /\ op = "new"
    /\ arg.scheme = S_http
    /\ arg.authority = S_a
    /\ arg.path = S_a
    /\ res.kind = "ok"
    /\ res.uri.path = << Slash, 97 >>

(* C4: given an empty authority and a path that starts with "//" (and a    *)
(* well-formed scheme), new, parse, from and with return                   *)
(* InvalidPathWithoutAuthority exactly when the scheme is none of http,    *)
(* https and file; with one of these three the input is accepted.          *)
C4_DoubleSlashPath ==
    (/\ Constructed
     /\ Given.authority = EMPTY
     /\ DOUBLE_SLASH_START(Given.path)
     /\ SCHEME_PATTERN(GivenScheme)) =>
        IF GivenScheme \in AuthoritySchemes
        THEN res.kind = "ok" /\ res.uri.scheme = GivenScheme
        ELSE res.err = "InvalidPathWithoutAuthority"

(* C5: new, parse and from given an empty scheme (parse: the empty string  *)
(* or text without a scheme) return a URI whose scheme is "file" and whose *)
(* path starts with '/'; and no URI returned as a success value by any     *)
(* operation has an empty scheme.                                          *)
C5_EmptySchemeIsFile ==
    /\ res.kind = "ok" => res.uri.scheme # EMPTY
    /\ (op \in {"new", "from", "parse"} /\ Given.scheme = EMPTY) =>
            /\ res.kind = "ok"
            /\ res.uri.scheme = S_file
            /\ StartsWith(res.uri.path, SLASH)

(* C6: with(change) returns what new returns for the receiver's fields     *)
(* overridden by the change set, the kind of error included, and when no   *)
(* field differs from the receiver's it returns a value equal to the       *)
(* receiver.                                                               *)
C6_WithIsNew ==
    op = "with" =>
        LET m == Merged(recv, arg)
        IN  /\ res = New(m.scheme, m.authority, m.path, m.query, m.fragment)
            /\ m = recv => res = Ok(recv)
            /\ m.scheme = S_fail => res = Err("IllegalSchemeCharacters")

\* C6: with has been asked for the scheme "fai:l" and returned
\* IllegalSchemeCharacters.
C6_Witness ==
    /\ op = "with"
    /\ arg.scheme = Some(S_fail)
    /\ res = Err("IllegalSchemeCharacters")

(* C7, as claimed: when with succeeds, every field the change set leaves   *)
(* unset has the receiver's value in the result and every field it sets    *)
(* has the value given.                                                    *)
C7_FieldsExactlyMerged ==
    (op = "with" /\ res.kind = "ok") => res.uri = Given

(* C7, amended: when with succeeds, authority, query and fragment of the   *)
(* result are the value the change set gives, or the receiver's when it    *)
(* gives none; so is the scheme, except that an empty scheme has become    *)
(* "file"; so is the path, except that with the scheme http, https or file *)
(* an empty path has become "/" and a path that does not start with '/'    *)
(* has been given a leading '/'.                                           *)
C7_FieldsMergedUpToCoercion ==
    (op = "with" /\ res.kind = "ok") =>
        LET s == UnwrapOr(arg.scheme, recv.scheme)
            p == UnwrapOr(arg.path, recv.path)
        IN  /\ res.uri.authority = UnwrapOr(arg.authority, recv.authority)
            /\ res.uri.query = UnwrapOr(arg.query, recv.query)
            /\ res.uri.fragment = UnwrapOr(arg.fragment, recv.fragment)
            /\ res.uri.scheme = (IF s = EMPTY THEN S_file ELSE s)
            /\ res.uri.path =
                   (IF res.uri.scheme \notin AuthoritySchemes THEN p
                    ELSE IF p = EMPTY THEN SLASH
                    ELSE IF Head(p) # Slash THEN SLASH \o p
                    ELSE p)

\* C7: with has set the scheme of foo: (empty path) to http and left the path
\* unset, and the result has the path "/"; the query it set is in the result.
C7_Witness ==
    /\ op = "with"
    /\ res.kind = "ok"
    /\ recv.scheme = S_foo
    /\ recv.path = EMPTY
    /\ arg.scheme = Some(S_http)
    /\ arg.path = None
    /\ arg.query = Some(S_q)
    /\ res.uri.path = SLASH
    /\ res.uri.query = S_q

----------------------------------------------------------------------------
(* The round trip through text: a caller constructs a URI, formats it with  *)
(* full encoding and parses the text.                                      *)

\* The longest field of a URI that is formatted.
MaxTextLen == 2

\* "FOO", a scheme in upper case
S_FOO == << 70, 79, 79 >>
RtSchemes == { S_foo, S_file, S_http, S_FOO }
\* over '/', 'a', 'C', ':', '%', U+00E4, '<' and '\'
RtPaths ==
    StringsUpTo({Slash, 97, 67, Colon, PercentSign, 228, 60, Backslash}, MaxTextLen)
        \cup { << Slash, 67, Colon, Slash, 97 >>, << Slash, 228, 97, 60 >>,
               << Slash, Hash, QuestionMark, 228 >> }
\* over 'a', 'A', ':', '@', '/', '%', U+00E4 and '<'
RtAuthorities ==
    StringsUpTo({97, 65, Colon, AtSign, Slash, PercentSign, 228, 60}, MaxTextLen)
        \cup { << 97, Colon, PercentSign, 52, 49 >>, << 117, Colon, 80, AtSign, 104, Colon, 56 >>,
               << 85, Colon, 80, AtSign, 72, Colon, 56 >>,
               << 65, Hash, AtSign, 65, QuestionMark, Colon, Hash >>,
               \* "foo:bAr@localhost:8080"
               << 102, 111, 111, Colon, 98, 65, 114, AtSign,
                  108, 111, 99, 97, 108, 104, 111, 115, 116, Colon, 56, 48, 56, 48 >> }
\* over 'a', '#', '?', '%', U+00E4 and '<'
RtQueries == StringsUpTo({97, Hash, QuestionMark, PercentSign, 228, 60}, MaxTextLen)

\* The field tuples: one field is drawn from a rich set, the others from a few.
RtTuples ==
    { MkURI(s, a, p, EMPTY, EMPTY) : s \in RtSchemes, a \in { EMPTY, S_a }, p \in RtPaths }
    \cup { MkURI(s, a, p, EMPTY, EMPTY) :
             s \in RtSchemes, a \in RtAuthorities, p \in { EMPTY, << Slash, 97 >> } }
    \cup { MkURI(s, EMPTY, SLASH, q, f) : s \in RtSchemes, q \in RtQueries, f \in { EMPTY, S_f } }
    \cup { MkURI(s, EMPTY, SLASH, q, f) : s \in RtSchemes, q \in { EMPTY, S_q }, f \in RtQueries }

RtSetIsWindows == \E value \in BOOLEAN : SetIsWindows(value)

RtNew ==
    /\ Fresh
    /\ \E t \in RtTuples :
        /\ op' = "new"
        /\ arg' = t
        /\ recv' = NoURI
        /\ res' = New(t.scheme, t.authority, t.path, t.query, t.fragment)
        /\ UNCHANGED isWindows

RtToString ==
    /\ op = "new"
    /\ res.kind = "ok"
    /\ op' = "to_string"
    /\ arg' = [name |-> "to_string", skip_encoding |-> FALSE]
    /\ recv' = res.uri
    /\ res' = Text(to_string(res.uri, FALSE, isWindows))
    /\ UNCHANGED isWindows

\* to_string(true) of the URI that new returned.
RtToStringDisplay ==
    /\ op = "new"
    /\ res.kind = "ok"
    /\ op' = "to_string_display"
    /\ arg' = [name |-> "to_string", skip_encoding |-> TRUE]
    /\ recv' = res.uri
    /\ res' = Text(to_string(res.uri, TRUE, isWindows))
    /\ UNCHANGED isWindows

\* parse of the text that to_string returned; recv stays the formatted URI.
RtParse ==
    /\ op = "to_string"
    /\ res.kind = "str"
    /\ op' = "parse"
    /\ arg' = [name |-> "parse", value |-> res.str]
    /\ res' = Parse(res.str)
    /\ UNCHANGED << isWindows, recv >>

RtNext ==
    \/ RtSetIsWindows
    \/ RtNew
    \/ RtToString
    \/ RtToStringDisplay
    \/ RtParse

SpecRoundTrip == Init /\ [][RtNext]_vars

\* The characters that are unreserved in every component.
UnreservedChar(c) == IsAlnum(c) \/ c \in {Dash, Period, Underline, Tilde}

\* Every character of s is unreserved, a key of the escape table or not ASCII.
EscapedExactly(s) ==
    \A i \in 1..Len(s) : UnreservedChar(s[i]) \/ s[i] \in ENCODE_TABLE \/ s[i] >= 128

(* The fields of v hold no character whose re-encoding loses it: every      *)
(* character is unreserved, a key of the escape table or not ASCII; the    *)
(* authority is its own lower-case form and has none of '/', '?', '#' and  *)
(* '%' after its last ':'; the path neither starts with '/', an upper-case *)
(* letter and ':' nor is an upper-case letter and ':'.                     *)
Lossless(v) ==
    /\ EscapedExactly(v.authority)
    /\ EscapedExactly(v.path)
    /\ EscapedExactly(v.query)
    /\ EscapedExactly(v.fragment)
    /\ ToLower(v.authority) = v.authority
    /\ LET k == RFind(v.authority, Colon)
       IN  k > 0 => \A i \in (k + 1)..Len(v.authority) :
                        v.authority[i] \notin {Slash, QuestionMark, Hash, PercentSign}
    /\ ~(Len(v.path) >= 3 /\ v.path[1] = Slash /\ IsUpper(v.path[2]) /\ v.path[3] = Colon)
    /\ ~(Len(v.path) = 2 /\ IsUpper(v.path[1]) /\ v.path[2] = Colon)

(* C8, as claimed: for every successfully constructed URI v,               *)
(* to_string(v, skip_encoding = false) returns a text whose parse succeeds *)
(* and equals v field by field.                                            *)
C8_RoundTrip ==
    /\ op = "to_string" => res.kind = "str"
    /\ (op = "parse" /\ recv # NoURI) => res = Ok(recv)

(* C8, amended: for every successfully constructed URI v whose fields hold *)
(* no character whose re-encoding loses it (Lossless),                     *)
(* to_string(v, skip_encoding = false) returns a text whose parse succeeds *)
(* and equals v field by field.                                            *)
C8_RoundTripLossless ==
    /\ (op = "to_string" /\ Lossless(recv)) => res.kind = "str"
    /\ (op = "parse" /\ recv # NoURI /\ Lossless(recv)) => res = Ok(recv)

\* C8: foo://a/%C3%A4 has been parsed back to the URI with authority "a" and
\* path '/', U+00E4.
C8_Witness ==
    /\ op = "parse"
    /\ recv.scheme = S_foo
    /\ recv.authority = S_a
    /\ recv.path = << Slash, 228 >>
    /\ arg.value = S_foo \o << Colon, Slash, Slash, 97, Slash, PercentSign, 67, 51,
                              PercentSign, 65, 52 >>
    /\ Lossless(recv)
    /\ res = Ok(recv)

----------------------------------------------------------------------------
(* The round trip through the file system path: under a platform setting   *)
(* that stays as it is, a caller constructs a URI, takes its fs_path,      *)
(* hands that path to file and takes the fs_path of what file returns.     *)

\* The longest path of a URI whose fs_path is taken.
MaxFsLen == 3

FsSchemes == { S_file, S_foo }
\* over '/', 'c', 'C', ':', '\', '%' and '4', and "/%41", "/%2541", U+00E4 ':'
FsPaths ==
    StringsUpTo({Slash, 99, 67, Colon, Backslash, PercentSign, 52}, MaxFsLen)
        \cup { << Slash, PercentSign, 52, 49 >>, << Slash, PercentSign, 50, 53, 52, 49 >>,
               << 228, Colon >> }

FsSetIsWindows == \E value \in BOOLEAN : SetIsWindows(value)

FsNew ==
    /\ Fresh
    /\ \E s \in FsSchemes, a \in Authorities, p \in FsPaths :
        /\ op' = "new"
        /\ arg' = MkURI(s, a, p, EMPTY, EMPTY)
        /\ recv' = NoURI
        /\ res' = New(s, a, p, EMPTY, EMPTY)
        /\ UNCHANGED isWindows

FsPath ==
    /\ op = "new"
    /\ res.kind = "ok"
    /\ op' = "fs_path"
    /\ arg' = [name |-> "fs_path"]
    /\ recv' = res.uri
    /\ res' = Text(fs_path(res.uri, isWindows))
    /\ UNCHANGED isWindows

\* file of the path that fs_path returned; recv stays the URI it came from.
FsFile ==
    /\ op = "fs_path"
    /\ res.kind = "str"
    /\ op' = "file"
    /\ arg' = [name |-> "file", path |-> res.str]
    /\ res' = File(res.str, isWindows)
    /\ UNCHANGED << isWindows, recv >>

\* fs_path of the URI that file returned; arg stays the path file was given.
FsPathAgain ==
    /\ op = "file"
    /\ res.kind = "ok"
    /\ op' = "fs_path_again"
    /\ res' = Text(fs_path(res.uri, isWindows))
    /\ UNCHANGED << isWindows, recv, arg >>

FsNext ==
    \/ FsSetIsWindows
    \/ FsNew
    \/ FsPath
    \/ FsFile
    \/ FsPathAgain

SpecFsPath == Init /\ [][FsNext]_vars

\* A native path with every '\' turned into '/'.
SeparatorsNormalized(p) == Replace(p, Backslash, SLASH)

(* Two native paths are the same up to their separators: with every '\'    *)
(* read as '/', both are absolute or neither is, and they have the same    *)
(* segments other than "" and ".".                                         *)
SamePath(a, b) ==
    LET x == SeparatorsNormalized(a)
        y == SeparatorsNormalized(b)
        Named(g) == g # EMPTY /\ g # DOT
    IN  /\ StartsWith(x, SLASH) <=> StartsWith(y, SLASH)
        /\ SelectSeq(Split(x, Slash), Named) = SelectSeq(Split(y, Slash), Named)

\* p holds '%' followed by two hexadecimal digits.
HasEscape(p) ==
    \E i \in 1..Len(p) : p[i] = PercentSign /\ i + 2 <= Len(p) /\ IsHex(p[i + 1]) /\ IsHex(p[i + 2])

(* The native paths that file and fs_path take back to themselves: without *)
(* an escape and, with '\' read as '/' on Windows, of one of the forms     *)
(*   - '/' followed by no '/' and no ':', and not by a letter and ':';     *)
(*   - a lower-case ASCII letter and ':', followed by anything;            *)
(*   - "//", a host of one character or more without '/', '/', and one     *)
(*     character or more of which the first is not ':'.                    *)
TakenBack(p, win) ==
    LET q == IF win THEN SeparatorsNormalized(p) ELSE p
        n == Len(q)
        j == FindFrom(q, {Slash}, 3)
    IN  /\ ~HasEscape(p)
        /\ n >= 1
        /\ \/ /\ q[1] = Slash
              /\ n >= 2 => q[2] \notin {Slash, Colon}
              /\ n >= 3 => ~(IsAlpha(q[2]) /\ q[3] = Colon)
           \/ /\ n >= 2
              /\ IsLower(q[1])
              /\ q[2] = Colon
           \/ /\ n >= 5
              /\ q[1] = Slash
              /\ q[2] = Slash
              /\ j > 3
              /\ j < n
              /\ q[j + 1] # Colon

(* C9, as claimed: for every URI u and platform setting, with              *)
(* p = fs_path(u), file(p) returns a URI and its fs_path equals p up to    *)
(* the separators.                                                         *)
C9_FsRoundTrip ==
    /\ op = "file" => res.kind = "ok"
    /\ op = "fs_path_again" =>
            /\ res.kind = "str"
            /\ SamePath(res.str, arg.path)

(* C9, amended: for every URI u and platform setting, with p = fs_path(u), *)
(* if p holds no '%' followed by two hexadecimal digits and is (with '\'   *)
(* read as '/' on Windows) an absolute path that starts with neither "//"  *)
(* nor "/:" nor '/', a letter and ':', or starts with a lower-case drive   *)
(* letter and ':', or is "//host/rest" with a non-empty host and a         *)
(* non-empty rest that does not start with ':', then file(p) returns a URI *)
(* and its fs_path equals p.                                               *)
C9_FsRoundTripTakenBack ==
    /\ (op = "file" /\ TakenBack(arg.path, isWindows)) => res.kind = "ok"
    /\ (op = "fs_path_again" /\ TakenBack(arg.path, isWindows)) =>
            /\ res.kind = "str"
            /\ res.str = arg.path

\* C9: on Windows the fs_path "c:" of a URI with the path "/C:" has been handed
\* to file, which returned file:///c:, whose fs_path is "c:" again.
C9_Witness ==
    /\ op = "fs_path_again"
    /\ isWindows
    /\ recv.path = << Slash, 67, Colon >>
    /\ arg.path = << 99, Colon >>
    /\ TakenBack(arg.path, isWindows)
    /\ res.kind = "str"
    /\ res.str = << 99, Colon >>

----------------------------------------------------------------------------
(* normalize_path applied to a path and then to its own result.            *)

\* The longest path that is normalized.
MaxNormLen == 5

\* over '/', '.' and 'a'
NormPaths == StringsUpTo({Slash, Period, 97}, MaxNormLen)

Normalize ==
    /\ Fresh
    /\ \E path \in NormPaths :
        /\ op' = "normalize_path"
        /\ arg' = [name |-> "normalize_path", path |-> path]
        /\ res' = Text(normalize_path(path))
        /\ UNCHANGED << isWindows, recv >>

\* normalize_path of what normalize_path returned, which arg records as `once`.
NormalizeAgain ==
    /\ op = "normalize_path"
    /\ op' = "normalize_path_again"
    /\ arg' = [name |-> "normalize_path", path |-> arg.path, once |-> res.str]
    /\ res' = Text(normalize_path(res.str))
    /\ UNCHANGED << isWindows, recv >>

NormNext ==
    \/ Normalize
    \/ NormalizeAgain

SpecNormalize == Init /\ [][NormNext]_vars

(* C10: normalize_path is idempotent: for every path p,                    *)
(* normalize_path(normalize_path(p)) equals normalize_path(p).             *)
C10_NormalizeIdempotent ==
    op = "normalize_path_again" => res.str = arg.once

\* C10: "a/.." has been normalized to "." and "." to "." again.
C10_Witness ==
    /\ op = "normalize_path_again"
    /\ arg.path = << 97, Slash, Period, Period >>
    /\ arg.once = DOT
    /\ res.str = DOT

----------------------------------------------------------------------------
(* The path utilities applied to a URI: a caller constructs a URI and      *)
(* hands it to join_path, resolve_path, dirname, basename or extname.      *)

\* The longest path of a URI that is handed to a path utility.
MaxUtilLen == 3

PthSchemes == { S_foo, S_file }
\* over '/', '.' and 'a'
PthPaths == StringsUpTo({Slash, Period, 97}, MaxUtilLen)
PthTuples ==
    { MkURI(s, a, p, EMPTY, EMPTY) : s \in PthSchemes, a \in { EMPTY, S_a }, p \in PthPaths }

\* Segments that do not start with '/', and segments that do.
RelSegments ==
    { EMPTY, S_a, DOT, DOTDOT, << 97, Slash >>, << Period, Slash >>,
      << Period, Period, Slash >>, << 97, Slash, Slash >> }
AbsSegments == { SLASH, << Slash, 97 >>, << Slash, 97, Slash >>, << Slash, Period, Period >> }
PthSegments == RelSegments \cup AbsSegments

\* Segment lists: none, one, two, and three with a segment that starts with '/'
\* in the middle.
PthSegLists ==
    { << >> } \cup { << a >> : a \in PthSegments }
        \cup { << a, b >> : a \in PthSegments, b \in PthSegments }
        \cup { << a, x, b >> : a \in { S_a, DOTDOT }, x \in AbsSegments, b \in { S_a, DOTDOT } }

PthNew ==
    /\ Fresh
    /\ \E t \in PthTuples :
        /\ op' = "new"
        /\ arg' = t
        /\ recv' = NoURI
        /\ res' = New(t.scheme, t.authority, t.path, t.query, t.fragment)
        /\ UNCHANGED isWindows

\* The caller holds the URI that new returned.
PthHolding == op = "new" /\ res.kind = "ok"

PthJoinPath ==
    /\ PthHolding
    /\ \E paths \in PthSegLists :
        /\ op' = "join_path"
        /\ arg' = [name |-> "join_path", paths |-> paths]
        /\ recv' = res.uri
        /\ res' = join_path(res.uri, paths)
        /\ UNCHANGED isWindows

PthResolvePath ==
    /\ PthHolding
    /\ \E paths \in PthSegLists :
        /\ op' = "resolve_path"
        /\ arg' = [name |-> "resolve_path", paths |-> paths]
        /\ recv' = res.uri
        /\ res' = resolve_path(res.uri, paths)
        /\ UNCHANGED isWindows

PthDirname ==
    /\ PthHolding
    /\ op' = "dirname"
    /\ arg' = [name |-> "dirname"]
    /\ recv' = res.uri
    /\ res' = dirname(res.uri)
    /\ UNCHANGED isWindows

PthBasename ==
    /\ PthHolding
    /\ op' = "basename"
    /\ arg' = [name |-> "basename"]
    /\ recv' = res.uri
    /\ res' = Text(basename(res.uri))
    /\ UNCHANGED isWindows

PthExtname ==
    /\ PthHolding
    /\ op' = "extname"
    /\ arg' = [name |-> "extname"]
    /\ recv' = res.uri
    /\ res' = Text(extname(res.uri))
    /\ UNCHANGED isWindows

PthNext ==
    \/ PthNew
    \/ PthJoinPath
    \/ PthResolvePath
    \/ PthDirname
    \/ PthBasename
    \/ PthExtname

SpecPaths == Init /\ [][PthNext]_vars

\* The outcome of join_path(join_path(u, [a]), [b]).
JoinStepwise(u, a, b) ==
    LET first == join_path(u, << a >>)
    IN  IF first.kind = "ok" THEN join_path(first.uri, << b >>) ELSE first

(* C11: for every URI u and segments a and b that do not start with '/',   *)
(* join_path(join_path(u, [a]), [b]) and join_path(u, [a, b]) have the     *)
(* same outcome: both return the same URI or both fail.                    *)
C11_JoinComposes ==
    (/\ op = "join_path"
     /\ Len(arg.paths) = 2
     /\ arg.paths[1] \in RelSegments
     /\ arg.paths[2] \in RelSegments) =>
        LET stepwise == JoinStepwise(recv, arg.paths[1], arg.paths[2])
        IN  /\ stepwise.kind = res.kind
            /\ res.kind = "ok" => stepwise.uri = res.uri

\* s holds two '/' in a row.
HasDoubleSlash(s) == \E k \in 1..(Len(s) - 1) : s[k] = Slash /\ s[k + 1] = Slash

(* C12: for every URI and segment list join_path succeeds, and the path of *)
(* its result holds no two '/' in a row.                                   *)
C12_JoinNormalized ==
    op = "join_path" =>
        /\ res.kind = "ok"
        /\ ~HasDoubleSlash(res.uri.path)

(* C13: for every URI and segment list, the path of the URI that           *)
(* resolve_path returns does not end with '/' unless it is "/".            *)
C13_ResolveNoTrailingSlash ==
    (op = "resolve_path" /\ res.kind = "ok") =>
        (EndsWith(res.uri.path, SLASH) => res.uri.path = SLASH)

\* C13: resolve_path of foo://a/a with the segment "a/" has returned the path
\* "/a/a", without the '/' the segment ends with.
C13_Witness ==
    /\ op = "resolve_path"
    /\ recv = MkURI(S_foo, S_a, << Slash, 97 >>, EMPTY, EMPTY)
    /\ arg.paths = << << 97, Slash >> >>
    /\ res.kind = "ok"
    /\ res.uri.path = << Slash, 97, Slash, 97 >>

(* C14: in resolve_path a segment that starts with '/' replaces what has   *)
(* been accumulated: for a URI with an authority and a segment list        *)
(* s1..sk, x, t1..tn where x starts with '/', resolve_path returns the     *)
(* path that it returns for the same URI with the path "/" and the list    *)
(* x, t1..tn, whatever the path of the URI and s1..sk are.                 *)
C14_ResolveAbsoluteReplaces ==
    (op = "resolve_path" /\ recv.authority # EMPTY) =>
        \A k \in 1..Len(arg.paths) :
            StartsWith(arg.paths[k], SLASH) =>
                LET root == MkURI(recv.scheme, recv.authority, SLASH, recv.query, recv.fragment)
                    from_root == resolve_path(root, SubSeq(arg.paths, k, Len(arg.paths)))
                IN  /\ res.kind = "ok"
                    /\ from_root.kind = "ok"
                    /\ res.uri.path = from_root.uri.path

\* C14: resolve_path of foo://a/a/a with "..", "/a" and "a" has returned the
\* path "/a/a": what precedes "/a" has no part in it.
C14_Witness ==
    /\ op = "resolve_path"
    /\ recv = MkURI(S_foo, S_a, << Slash, 97, Slash >>, EMPTY, EMPTY)
    /\ arg.paths = << DOTDOT, << Slash, 97 >>, S_a >>
    /\ res.kind = "ok"
    /\ res.uri.path = << Slash, 97, Slash, 97 >>

\* p without the '/' it ends with, however many, down to one character.
RECURSIVE WithoutTrailingSlashes(_)
WithoutTrailingSlashes(p) ==
    IF Len(p) > 1 /\ p[Len(p)] = Slash THEN WithoutTrailingSlashes(SubSeq(p, 1, Len(p) - 1))
    ELSE p

\* The index of the last '/' of p, 0 when it has none.
LastSlash(p) ==
    IF \E k \in 1..Len(p) : p[k] = Slash
    THEN CHOOSE k \in 1..Len(p) : p[k] = Slash /\ \A j \in (k + 1)..Len(p) : p[j] # Slash
    ELSE 0

\* The URI u with the path p.
WithPath(u, p) == MkURI(u.scheme, u.authority, p, u.query, u.fragment)

(* What C15 says of dirname for one URI: the URI itself when its path is   *)
(* empty or "/"; otherwise the URI with the path cut before its last '/',  *)
(* trailing '/' ignored: "/" when that '/' is the first character, the     *)
(* empty path when there is none.                                          *)
DirnameAsClaimed(u) ==
    IF u.path = EMPTY \/ u.path = SLASH THEN Ok(u)
    ELSE LET p == WithoutTrailingSlashes(u.path)
             k == LastSlash(p)
         IN  Ok(WithPath(u, IF k = 1 THEN SLASH
                            ELSE IF k = 0 THEN EMPTY
                            ELSE SubSeq(p, 1, k - 1)))

\* The URI u with one more '/' at the end of its path, as new returns it.
OneMoreSlash(u) == New(u.scheme, u.authority, u.path \o SLASH, u.query, u.fragment)

(* C15, as claimed: dirname returns the URI unchanged when its path is     *)
(* empty or "/", and otherwise the path before the last '/', trailing '/'  *)
(* ignored; and dirname of a path followed by one more '/' is dirname of   *)
(* the path, for every path.                                               *)
C15_Dirname ==
    op = "dirname" =>
        /\ res = DirnameAsClaimed(recv)
        /\ OneMoreSlash(recv).kind = "ok" => dirname(OneMoreSlash(recv).uri) = res

(* C15, amended: dirname returns the URI unchanged when its path is empty  *)
(* or "/", and otherwise the path before the last '/', trailing '/'        *)
(* ignored; and dirname of a non-empty path followed by one more '/' is    *)
(* dirname of the path.                                                    *)
C15_DirnameOfNonEmpty ==
    op = "dirname" =>
        /\ res = DirnameAsClaimed(recv)
        /\ (recv.path # EMPTY /\ OneMoreSlash(recv).kind = "ok") =>
               dirname(OneMoreSlash(recv).uri) = res

\* C15: dirname of foo://a/a/ has returned foo://a/, the trailing '/' ignored.
C15_Witness ==
    /\ op = "dirname"
    /\ recv = MkURI(S_foo, S_a, << Slash, 97, Slash >>, EMPTY, EMPTY)
    /\ res = Ok(MkURI(S_foo, S_a, SLASH, EMPTY, EMPTY))
    /\ dirname(OneMoreSlash(recv).uri) = res

(* What C16 says of basename: the last segment of the path once its        *)
(* trailing '/' are ignored, nothing for an empty path and for "/".        *)
BasenameAsClaimed(u) ==
    IF u.path = EMPTY \/ u.path = SLASH THEN EMPTY
    ELSE LET p == WithoutTrailingSlashes(u.path)
         IN  SubSeq(p, LastSlash(p) + 1, Len(p))

(* C16: basename is the last segment of the path, trailing '/' ignored,    *)
(* and empty for an empty path and for "/"; extname is the text of         *)
(* basename from its last '.' on when basename has a '.' at an index       *)
(* greater than 0 (after its first character), and empty otherwise.        *)
C16_ExtnameFromBasename ==
    /\ op = "basename" => res.str = BasenameAsClaimed(recv)
    /\ op = "extname" =>
          LET b == BasenameAsClaimed(recv)
              dots == { k \in 2..Len(b) : b[k] = Period }
          IN  res.str = IF dots = {} THEN EMPTY
                        ELSE SubSeq(b, CHOOSE k \in dots : \A j \in dots : j <= k, Len(b))

----------------------------------------------------------------------------
(* file applied to a native path, under either platform setting.           *)

\* The longest native path handed to file.
MaxFileLen == 3

(* over '/', '\', 'c', 'C' and ':', with "//a/c", "C:/c", "\\a\c", and a   *)
(* two-byte and a three-byte character before ':'                          *)
FilePaths ==
    StringsUpTo({Slash, Backslash, 99, 67, Colon}, MaxFileLen)
        \cup { << Slash, Slash, 97, Slash, 99 >>, << 67, Colon, Slash, 99 >>,
               << Backslash, Backslash, 97, Backslash, 99 >>,
               << 228, Colon >>, << 8364, Colon >> }

FileOfNative ==
    /\ Fresh
    /\ \E path \in FilePaths :
        /\ op' = "file"
        /\ arg' = [name |-> "file", path |-> path]
        /\ recv' = NoURI
        /\ res' = File(path, isWindows)
        /\ UNCHANGED isWindows

\* fs_path of the URI that file returned.
FileFsPath ==
    /\ op = "file"
    /\ res.kind = "ok"
    /\ op' = "fs_path"
    /\ recv' = res.uri
    /\ res' = Text(fs_path(res.uri, isWindows))
    /\ UNCHANGED << isWindows, arg >>

FileNext ==
    \/ \E value \in BOOLEAN : SetIsWindows(value)
    \/ FileOfNative
    \/ FileFsPath

SpecFile == Init /\ [][FileNext]_vars

\* The native path that file was given, with '\' read as '/' on Windows.
FileGiven == IF isWindows THEN SeparatorsNormalized(arg.path) ELSE arg.path

(* C17: for every native path, file returns a URI with the scheme "file",  *)
(* an empty query and fragment and a path that starts with '/'; when the   *)
(* native path begins with a drive letter and ':', the path of the URI     *)
(* begins with '/', the lower-case drive letter and ':'.                   *)
C17_FileAlwaysAbsolute ==
    op = "file" =>
        /\ res.kind = "ok"
        /\ res.uri.scheme = S_file
        /\ res.uri.query = EMPTY
        /\ res.uri.fragment = EMPTY
        /\ StartsWith(res.uri.path, SLASH)
        /\ (Len(FileGiven) >= 2 /\ IsAlpha(FileGiven[1]) /\ FileGiven[2] = Colon) =>
               StartsWith(res.uri.path, << Slash, ToLowerChar(FileGiven[1]), Colon >>)

(* C18: only on Windows and for a native path that begins with a doubled   *)
(* separator does file take the authority out of the path: the authority   *)
(* is the text between the doubled separator and the next separator, the   *)
(* path what follows it, or "/" when nothing follows; in every other case  *)
(* the authority is empty and the path is the whole native path with its   *)
(* separators normalized (stated here of native paths that start with '/'  *)
(* and of remainders that hold no ':', which the drive letter rule leaves  *)
(* alone).                                                                 *)
C18_FileAuthority ==
    (op = "file" /\ res.kind = "ok") =>
        LET q == FileGiven
            k == FindFrom(q, {Slash}, 3)
            host == IF k = 0 THEN Drop(q, 2) ELSE SubSeq(q, 3, k - 1)
            rest == IF k = 0 THEN SLASH ELSE Drop(q, k - 1)
        IN  IF isWindows /\ StartsWith(q, << Slash, Slash >>)
            THEN /\ res.uri.authority = host
                 /\ Find(rest, Colon) = 0 => res.uri.path = rest
            ELSE /\ res.uri.authority = EMPTY
                 /\ (StartsWith(q, SLASH) /\ Find(q, Colon) = 0) => res.uri.path = q

----------------------------------------------------------------------------
(* Properties of the text that to_string returns in full-encoding mode,    *)
(* stated of the states of SpecRoundTrip.                                  *)

\* The text that to_string returned, from after its first ':' on.
AfterScheme == Drop(res.str, Find(res.str, Colon))

\* An upper-case hexadecimal digit.
IsUpperHex(c) == IsDigit(c) \/ (c >= 65 /\ c <= 70)

\* t[k] belongs to an escape: '%' and two upper-case hexadecimal digits.
InEscape(t, k) ==
    \E e \in { k - 2, k - 1, k } :
        /\ e >= 1
        /\ e + 2 <= Len(t)
        /\ t[e] = PercentSign
        /\ IsUpperHex(t[e + 1])
        /\ IsUpperHex(t[e + 2])

(* C19: in full-encoding mode every code point of authority, path, query   *)
(* and fragment that is not unreserved in its place is percent-encoded     *)
(* with upper-case hexadecimal digits: after the scheme, the text that     *)
(* to_string returns holds only ASCII letters and digits, '-', '.', '_',   *)
(* '~', the characters '/', ':', '[', ']' that are unreserved in a path or *)
(* an authority, the delimiters '?', '#' and '@', and %XX escapes.         *)
C19_OnlyUnreservedAndEscapes ==
    (op = "to_string" /\ res.kind = "str") =>
        \A k \in 1..Len(AfterScheme) :
            \/ UnreservedChar(AfterScheme[k])
            \/ AfterScheme[k] \in { Slash, Colon, OpenSquareBracket, CloseSquareBracket,
                                    QuestionMark, Hash, AtSign }
            \/ InEscape(AfterScheme, k)

(* C20: in full-encoding mode the text that to_string returns holds,       *)
(* before its first ':', the lower-case form of the scheme.                *)
C20_SchemeLowerCased ==
    (op = "to_string" /\ res.kind = "str") =>
        /\ Find(res.str, Colon) > 0
        /\ Take(res.str, Find(res.str, Colon) - 1) = ToLower(recv.scheme)

-----------------------------------------------------------------------------
(* The authority in the full encoding.  The claims are stated of the       *)
(* states of SpecRoundTrip in which to_string has just returned.           *)

\* Every character of s escaped as the bytes of its UTF-8 form, except the
\* unreserved ones and, where keep holds, ':', '[' and ']'.
RECURSIVE EscapedByChar(_, _)
EscapedByChar(s, keep) ==
    IF s = EMPTY THEN EMPTY
    ELSE (IF UnreservedChar(s[1])
             \/ (keep /\ s[1] \in {Colon, OpenSquareBracket, CloseSquareBracket})
          THEN << s[1] >>
          ELSE PctHexAll(Utf8Bytes(<< s[1] >>)))
         \o EscapedByChar(Drop(s, 1), keep)

(* The authority as the claim emits it: the text before the first '@' in   *)
(* its own letter case, split at its last ':' into user and password that  *)
(* are escaped apart; the rest lower-cased, escaped up to its last ':' and *)
(* as it is from there.                                                    *)
AuthorityAsClaimed(a) ==
    LET at == Find(a, AtSign)
        userinfo == IF at # 0 THEN Take(a, at - 1) ELSE EMPTY
        host == ToLower(IF at # 0 THEN Drop(a, at) ELSE a)
        uc == RFind(userinfo, Colon)
        hc == RFind(host, Colon)
    IN  (IF at = 0 THEN EMPTY
         ELSE (IF uc # 0
               THEN EscapedByChar(Take(userinfo, uc - 1), FALSE) \o << Colon >>
                        \o EscapedByChar(Drop(userinfo, uc), TRUE)
               ELSE EscapedByChar(userinfo, FALSE)) \o << AtSign >>)
        \o (IF hc # 0 THEN EscapedByChar(Take(host, hc - 1), TRUE) \o Drop(host, hc - 1)
            ELSE EscapedByChar(host, TRUE))

\* to_string(false) has returned for a URI with an authority of characters
\* that are unreserved, keys of the escape table or not ASCII, and with no
\* query and no fragment.
AuthorityFormatted ==
    /\ op = "to_string"
    /\ res.kind = "str"
    /\ recv.authority # EMPTY
    /\ EscapedExactly(recv.authority)
    /\ recv.query = EMPTY
    /\ recv.fragment = EMPTY
    /\ recv.path \in { EMPTY, << Slash, 97 >> }

(* C21: in the full encoding the authority is emitted with the host        *)
(* lower-cased and the user information before '@' in its own letter case, *)
(* user and password escaped apart around a literal ':', and the host's    *)
(* text from its last ':' on emitted without escaping: the text returned   *)
(* is the scheme, "://", the authority so formed and the path.             *)
C21_AuthorityFormatted ==
    AuthorityFormatted =>
        res.str = recv.scheme \o << Colon, Slash, Slash >>
                      \o AuthorityAsClaimed(recv.authority) \o recv.path

\* to_string(false) has returned for an authority with upper-case letters
\* in its user information and its host and with a port.
C21_Witness ==
    /\ AuthorityFormatted
    /\ recv.authority = << 85, Colon, 80, AtSign, 72, Colon, 56 >>
    /\ res.str = recv.scheme \o << Colon, Slash, Slash, 85, Colon, 80, AtSign, 104, Colon, 56 >>
                     \o recv.path

-----------------------------------------------------------------------------
(* The display mode.  The claims are stated of the states of SpecRoundTrip *)
(* in which to_string(true) has just returned.                             *)

\* s with every escape of '#' and of '?' replaced by the character.
RECURSIVE UnescapedHashQuestion(_)
UnescapedHashQuestion(s) ==
    IF s = EMPTY THEN EMPTY
    ELSE IF Len(s) >= 3 /\ Take(s, 3) = PctHex(Hash)
    THEN << Hash >> \o UnescapedHashQuestion(Drop(s, 3))
    ELSE IF Len(s) >= 3 /\ Take(s, 3) = PctHex(QuestionMark)
    THEN << QuestionMark >> \o UnescapedHashQuestion(Drop(s, 3))
    ELSE << s[1] >> \o UnescapedHashQuestion(Drop(s, 1))

\* The fields of v put together with their delimiters and nothing changed.
Verbatim(v) ==
    v.scheme \o << Colon >>
        \o (IF v.authority # EMPTY \/ v.scheme = S_file THEN << Slash, Slash >> ELSE EMPTY)
        \o v.authority \o v.path
        \o (IF v.query # EMPTY THEN << QuestionMark >> \o v.query ELSE EMPTY)
        \o (IF v.fragment # EMPTY THEN << Hash >> \o v.fragment ELSE EMPTY)

\* s with every character that is in set escaped.
RECURSIVE EscapedOnly(_, _)
EscapedOnly(s, set) ==
    IF s = EMPTY THEN EMPTY
    ELSE (IF s[1] \in set THEN PctHex(s[1]) ELSE << s[1] >>) \o EscapedOnly(Drop(s, 1), set)

(* The authority in display mode: '#' and '?' escaped, the text after the  *)
(* first '@' lower-cased and emitted as it is from its last ':' on.        *)
DisplayAuthority(a) ==
    LET at == Find(a, AtSign)
        host == ToLower(IF at # 0 THEN Drop(a, at) ELSE a)
        hc == RFind(host, Colon)
    IN  (IF at # 0 THEN EscapedOnly(Take(a, at - 1), {Hash, QuestionMark}) \o << AtSign >>
         ELSE EMPTY)
        \o (IF hc # 0
            THEN EscapedOnly(Take(host, hc - 1), {Hash, QuestionMark}) \o Drop(host, hc - 1)
            ELSE EscapedOnly(host, {Hash, QuestionMark}))

\* The path with an upper-case drive letter at its start lower-cased: the
\* start is '/', the letter and ':', or the path is the letter and ':'.
DisplayPath(p) ==
    IF Len(p) >= 3 /\ p[1] = Slash /\ IsUpper(p[2]) /\ p[3] = Colon
    THEN << Slash, ToLowerChar(p[2]) >> \o Drop(p, 2)
    ELSE IF Len(p) = 2 /\ IsUpper(p[1]) /\ p[2] = Colon
    THEN << ToLowerChar(p[1]), Colon >>
    ELSE p

(* C22, as claimed: the text that to_string(true) returns is the fields    *)
(* put together with their delimiters, nothing changed but '#' and '?'     *)
(* escaped: the two texts are equal once the escapes of '#' and '?' are    *)
(* undone in both.                                                         *)
C22_DisplayVerbatim ==
    (op = "to_string_display" /\ res.kind = "str") =>
        UnescapedHashQuestion(res.str) = UnescapedHashQuestion(Verbatim(recv))

(* C22, as amended: to_string(true) escapes '#' and '?' in the authority   *)
(* and the path, '#' in the query and nothing in the fragment, lower-cases *)
(* the authority after its first '@' and emits it as it is from its last   *)
(* ':' on, lower-cases an upper-case drive letter at the start of the path *)
(* and changes nothing else.                                               *)
C22_DisplayEscapes ==
    (op = "to_string_display" /\ res.kind = "str") =>
        res.str = recv.scheme \o << Colon >>
            \o (IF recv.authority # EMPTY \/ recv.scheme = S_file
                THEN << Slash, Slash >> ELSE EMPTY)
            \o DisplayAuthority(recv.authority)
            \o EscapedOnly(DisplayPath(recv.path), {Hash, QuestionMark})
            \o (IF recv.query # EMPTY
                THEN << QuestionMark >> \o EscapedOnly(recv.query, {Hash}) ELSE EMPTY)
            \o (IF recv.fragment # EMPTY THEN << Hash >> \o recv.fragment ELSE EMPTY)

\* to_string(true) has returned for a path of '/', '#', '?' and U+00E4:
\* '#' and '?' are escaped and the other characters are emitted as they are.
C22_Witness ==
    /\ op = "to_string_display"
    /\ res.kind = "str"
    /\ recv.path = << Slash, Hash, QuestionMark, 228 >>
    /\ recv.authority = S_a
    /\ res.str = recv.scheme \o << Colon, Slash, Slash, 97, Slash >>
                     \o PctHex(Hash) \o PctHex(QuestionMark) \o << 228 >>

-----------------------------------------------------------------------------
(* The percent decoder on its own: percent_decode is applied to texts put  *)
(* together from at most MaxDecParts of the parts of DecParts.             *)

MaxDecParts == 3

\* "%41", "%C3", "%A4", "%ff", "%zz", "a", "%", "%4" and U+00E4
DecParts ==
    { << PercentSign, 52, 49 >>, << PercentSign, 67, 51 >>, << PercentSign, 65, 52 >>,
      << PercentSign, 102, 102 >>, << PercentSign, 122, 122 >>, << 97 >>,
      << PercentSign >>, << PercentSign, 52 >>, << 228 >> }

RECURSIVE DecTexts(_)
DecTexts(n) ==
    IF n = 0 THEN { EMPTY }
    ELSE DecTexts(n - 1) \cup { t \o p : t \in DecTexts(n - 1), p \in DecParts }

DecInputs == DecTexts(MaxDecParts)

Decode ==
    /\ Fresh
    /\ \E value \in DecInputs :
        /\ op' = "percent_decode"
        /\ arg' = [name |-> "percent_decode", value |-> value]
        /\ recv' = NoURI
        /\ res' = Text(percent_decode(value))
        /\ UNCHANGED isWindows

DecNext == Decode

SpecDecode == Init /\ [][DecNext]_vars

\* Whether '%' and two hexadecimal digits stand at s[i].
EscapeAt(s, i) ==
    i + 2 <= Len(s) /\ s[i] = PercentSign /\ IsHex(s[i + 1]) /\ IsHex(s[i + 2])

\* s is a run of escapes and nothing else.
IsEscapeRun(s) ==
    /\ Len(s) >= 3
    /\ Len(s) % 3 = 0
    /\ \A k \in 0..((Len(s) \div 3) - 1) : EscapeAt(s, 3 * k + 1)

\* The bytes that the escapes of the run s name.
RunBytes(s) ==
    [k \in 1..(Len(s) \div 3) |-> HexValue(s[3 * k - 1]) * 16 + HexValue(s[3 * k])]

(* C23: percent_decode returns a string for every input; an input without  *)
(* an escape is returned unchanged; a run of escapes that names valid      *)
(* UTF-8 is returned as the text with these bytes; of a run that does not, *)
(* the first three characters are returned as they are, followed by what   *)
(* percent_decode returns for the rest of the run.                         *)
C23_DecodeTotal ==
    op = "percent_decode" =>
        /\ res.kind = "str"
        /\ (\A i \in 1..Len(arg.value) : ~EscapeAt(arg.value, i)) => res.str = arg.value
        /\ (IsEscapeRun(arg.value) /\ Utf8Valid(RunBytes(arg.value), 1))
               => Utf8Bytes(res.str) = RunBytes(arg.value)
        /\ (IsEscapeRun(arg.value) /\ ~Utf8Valid(RunBytes(arg.value), 1))
               => res.str = Take(arg.value, 3) \o percent_decode(Drop(arg.value, 3))

\* percent_decode has returned for "%ff%C3%A4", a run that is not UTF-8 as
\* a whole: its first escape stays and the rest is decoded to U+00E4.
C23_Witness ==
    /\ op = "percent_decode"
    /\ arg.value = << PercentSign, 102, 102, PercentSign, 67, 51, PercentSign, 65, 52 >>
    /\ res.kind = "str"
    /\ res.str = << PercentSign, 102, 102, 228 >>

-----------------------------------------------------------------------------
(* Panics.                                                                 *)

(* C24: no operation aborts: new returns a URI or an error, and to_string  *)
(* in both modes and parse return a result for every URI that new has      *)
(* returned, also when a field mixes non-ASCII characters with characters  *)
(* such as '<'.                                                            *)
C24_NoAbort == res.kind # "panic"

-----------------------------------------------------------------------------
(* fs_path on a POSIX-style host.  The claim is stated of the states of    *)
(* SpecFsPath in which fs_path has just returned with the flag not set.    *)

\* The native path as claimed for a POSIX-style host.
PosixPathAsClaimed(v) ==
    IF v.authority # EMPTY THEN << Slash, Slash >> \o v.authority \o v.path ELSE v.path

(* C25: on a POSIX-style host fs_path of a URI with an authority returns   *)
(* "//", the authority and the path, and fs_path of a URI without one      *)
(* returns the path, its leading '/' kept before a drive letter; the text  *)
(* is taken as claimed or with its escapes decoded.                        *)
C25_PosixFsPath ==
    (op = "fs_path" /\ ~isWindows /\ res.kind = "str") =>
        res.str \in { PosixPathAsClaimed(recv), percent_decode(PosixPathAsClaimed(recv)) }

-----------------------------------------------------------------------------
(* Strict parsing.                                                         *)

(* C26: parse_with_strict with strict = true returns the MissingScheme     *)
(* error for an input without a scheme: the empty input, and every input   *)
(* from which the grammar captures no scheme.                              *)
C26_StrictMissingScheme ==
    (op = "parse_with_strict" /\ arg.strict
        /\ (arg.value = EMPTY \/ URI_REGEX(arg.value).scheme = EMPTY)) =>
        (res.kind = "err" /\ res.err = "MissingScheme")

-----------------------------------------------------------------------------
(* The grammar on its own: parse is applied to texts put together from at  *)
(* most MaxPrsParts of the parts of PrsParts.                              *)

MaxPrsParts == 4

\* "a", ":", "/", "?", "#", "%41" and a line feed
PrsParts ==
    { << 97 >>, << Colon >>, << Slash >>, << QuestionMark >>, << Hash >>,
      << PercentSign, 52, 49 >>, << LineFeed >> }

RECURSIVE PrsTexts(_)
PrsTexts(n) ==
    IF n = 0 THEN { EMPTY }
    ELSE PrsTexts(n - 1) \cup { t \o p : t \in PrsTexts(n - 1), p \in PrsParts }

PrsInputs == PrsTexts(MaxPrsParts)

PrsParse ==
    /\ Fresh
    /\ \E value \in PrsInputs :
        /\ op' = "parse"
        /\ arg' = [name |-> "parse", value |-> value]
        /\ recv' = NoURI
        /\ res' = Parse(value)
        /\ UNCHANGED isWindows

PrsNext == PrsParse

SpecParse == Init /\ [][PrsNext]_vars

\* The text of s before the first character of set, all of s without one.
UpToFirst(s, set) ==
    LET i == FindFrom(s, set, 1) IN IF i = 0 THEN s ELSE Take(s, i - 1)

\* The text of s from the first character of set on, empty without one.
FromFirst(s, set) ==
    LET i == FindFrom(s, set, 1) IN IF i = 0 THEN EMPTY ELSE Drop(s, i - 1)

(* The split of the text as claimed: the scheme is the text before the     *)
(* first ':' if it is not empty and has no '/', '?' or '#'; the authority  *)
(* is the text between "//" and the next '/', '?' or '#'; the path runs to *)
(* the first '?' or '#', the query to the first '#' and the fragment is    *)
(* the rest.                                                               *)
SplitAsClaimed(value) ==
    LET c == Find(value, Colon)
        hasScheme == c >= 2 /\ \A i \in 1..(c - 1) : value[i] \notin {Slash, QuestionMark, Hash}
        scheme == IF hasScheme THEN Take(value, c - 1) ELSE EMPTY
        r1 == IF hasScheme THEN Drop(value, c) ELSE value
        hasAuth == StartsWith(r1, << Slash, Slash >>)
        authority == IF hasAuth THEN UpToFirst(Drop(r1, 2), {Slash, QuestionMark, Hash})
                     ELSE EMPTY
        r2 == IF hasAuth THEN Drop(r1, 2 + Len(authority)) ELSE r1
        path == UpToFirst(r2, {QuestionMark, Hash})
        r3 == Drop(r2, Len(path))
        hasQuery == StartsWith(r3, << QuestionMark >>)
        query == IF hasQuery THEN UpToFirst(Drop(r3, 1), {Hash}) ELSE EMPTY
        r4 == IF hasQuery THEN Drop(r3, 1 + Len(query)) ELSE r3
        fragment == IF StartsWith(r4, << Hash >>) THEN Drop(r4, 1) ELSE EMPTY
    IN  MkURI(scheme, authority, path, query, fragment)

(* C27: parse returns what new returns for the split of its input as       *)
(* claimed, with authority, path, query and fragment percent-decoded and   *)
(* the scheme as it is.                                                    *)
C27_ParseSplits ==
    op = "parse" =>
        LET c == SplitAsClaimed(arg.value)
        IN  res = New(c.scheme, percent_decode(c.authority), percent_decode(c.path),
                      percent_decode(c.query), percent_decode(c.fragment))

\* C27 for the inputs without a line feed after a '#'.
C27_ParseSplitsOneLine ==
    (op = "parse"
        /\ LET f == FromFirst(arg.value, {Hash}) IN \A i \in 1..Len(f) : f[i] # LineFeed)
        => C27_ParseSplits

-----------------------------------------------------------------------------
(* The frame of the path operations.                                       *)

(* C28: join_path, resolve_path and dirname change only the path: the URI  *)
(* that one of them returns has the scheme, authority, query and fragment  *)
(* of the URI it was called on, whatever operations that URI came from.    *)
C28_OnlyPathChanges ==
    (op \in {"join_path", "resolve_path", "dirname"} /\ res.kind = "ok") =>
        /\ res.uri.scheme = recv.scheme
        /\ res.uri.authority = recv.authority
        /\ res.uri.query = recv.query
        /\ res.uri.fragment = recv.fragment

\* join_path has returned a URI with another path for a URI with an
\* authority, a query and a fragment.
C28_Witness ==
    /\ op = "join_path"
    /\ res.kind = "ok"
    /\ res.uri.path # recv.path
    /\ recv.authority # EMPTY
    /\ recv.query # EMPTY
    /\ recv.fragment # EMPTY
    /\ res.uri.query = recv.query

-----------------------------------------------------------------------------
(* resolve_path against normalize_path.  The claim is stated of the states *)
(* of SpecPaths in which resolve_path has just returned.                   *)

\* The path without one trailing '/', the root as it is.
OneSlashLess(path) ==
    IF Len(path) > 1 /\ EndsWith(path, SLASH) THEN Take(path, Len(path) - 1) ELSE path

(* C29: for a URI with an absolute path and one segment that does not      *)
(* start with '/', the path that resolve_path returns is normalize_path of *)
(* the path, '/' and the segment, with one trailing '/' removed.           *)
C29_ResolveIsNormalize ==
    (op = "resolve_path" /\ res.kind = "ok" /\ Len(arg.paths) = 1
        /\ StartsWith(recv.path, SLASH) /\ ~StartsWith(arg.paths[1], SLASH)) =>
        res.uri.path = OneSlashLess(normalize_path(recv.path \o SLASH \o arg.paths[1]))

-----------------------------------------------------------------------------
(* Two callers in one process.  Each targets a platform of its own: it     *)
(* sets the platform flag to its target, calls file on a native path and   *)
(* then fs_path on the URI it was returned.  The flag is the one static of *)
(* the process; file and fs_path take no platform and read it when they    *)
(* run.  In this specification op, arg, recv and res hold, per caller, its *)
(* position, the call it makes, the URI it holds and what it was returned. *)

Callers == { "windows", "posix" }

\* The platform a caller targets, as the value of the flag.
Target(c) == c = "windows"

\* "\a", "\\a\c", "/a", "//a/c", "c:\a" and "C:/c"
CallerPaths ==
    { << Backslash, 97 >>, << Backslash, Backslash, 97, Backslash, 99 >>, << Slash, 97 >>,
      << Slash, Slash, 97, Slash, 99 >>, << 99, Colon, Backslash, 97 >>,
      << 67, Colon, Slash, 99 >> }

CallersInit ==
    /\ isWindows = FALSE
    /\ op = [c \in Callers |-> "init"]
    /\ arg = [c \in Callers |-> NoArg]
    /\ recv = [c \in Callers |-> NoURI]
    /\ res = [c \in Callers |-> NoResult]

\* set_is_windows(target) by caller c, which then has a path to call file on.
CallerSetIsWindows(c) ==
    /\ op[c] = "init"
    /\ isWindows' = Target(c)
    /\ \E path \in CallerPaths :
        arg' = [arg EXCEPT ![c] = [name |-> "file", path |-> path]]
    /\ op' = [op EXCEPT ![c] = "set_is_windows"]
    /\ UNCHANGED << recv, res >>

\* URI::file(path) by caller c, under the flag as it is now.
CallerFile(c) ==
    /\ op[c] = "set_is_windows"
    /\ op' = [op EXCEPT ![c] = "file"]
    /\ res' = [res EXCEPT ![c] = File(arg[c].path, isWindows)]
    /\ UNCHANGED << isWindows, arg, recv >>

\* fs_path of the URI that file returned to caller c, under the flag as it
\* is now.
CallerFsPath(c) ==
    /\ op[c] = "file"
    /\ res[c].kind = "ok"
    /\ op' = [op EXCEPT ![c] = "fs_path"]
    /\ recv' = [recv EXCEPT ![c] = res[c].uri]
    /\ res' = [res EXCEPT ![c] = Text(fs_path(res[c].uri, isWindows))]
    /\ UNCHANGED << isWindows, arg >>

CallersNext ==
    \E c \in Callers :
        \/ CallerSetIsWindows(c)
        \/ CallerFile(c)
        \/ CallerFsPath(c)

SpecCallers == CallersInit /\ [][CallersNext]_vars

(* C30: the platform is an input of file and fs_path and not state that    *)
(* the callers share: what file and fs_path return to a caller is what     *)
(* they return for its arguments under the platform it targets, whatever   *)
(* the other caller has set.                                               *)
C30_PlatformIsInput ==
    \A c \in Callers :
        /\ op[c] = "file" => res[c] = File(arg[c].path, Target(c))
        /\ op[c] = "fs_path" => res[c] = Text(fs_path(recv[c], Target(c)))

=============================================================================
